---- MODULE Spec2Model ----
(***************************************************************************)
(* Model of the pagination core of src/src/utils/buildPageView.ts (the     *)
(* second, "smart content splitting" version of the file, lines 525-1350). *)
(*                                                                         *)
(* Texts are sequences of one-character strings.  Heights are IEEE doubles *)
(* in the source; here they are exact rationals <<numerator, denominator>> *)
(* in lowest terms with a positive denominator.                            *)
(***************************************************************************)
EXTENDS Integers, Sequences, FiniteSets, TLC

\* ------------------------------------------------------------------ bounds
\* longest text tried on the splitter
MaxLen == 5
\* most content blocks of an input document
MaxBlocks == 3

\* ------------------------------------------------------------- constants
\* imported from ../constants/pagination (line 535); the value is the line
\* height the specification's scenarios use
MIN_PARAGRAPH_HEIGHT == 10
MIN_LINES_ON_PAGE == 2
MIN_LINES_AFTER_SPLIT == 2
ESTIMATED_LINE_HEIGHT == MIN_PARAGRAPH_HEIGHT

\* the null of a split result, and a Nullable<number> as a sequence of at most
\* one number
Null == [isNull |-> TRUE]
NoPos == <<>>
Pos(n) == <<n>>

\* ------------------------------------------------------------- rationals
RECURSIVE Gcd(_, _)
Gcd(a, b) == IF b = 0 THEN a ELSE Gcd(b, a % b)

Norm(n, d) == LET g == Gcd(n, d) IN IF g = 0 THEN <<0, 1>> ELSE <<n \div g, d \div g>>

R(n) == <<n, 1>>
RAdd(a, b) == Norm(a[1] * b[2] + b[1] * a[2], a[2] * b[2])
RSub(a, b) == LET n == a[1] * b[2] - b[1] * a[2]
                  d == a[2] * b[2]
                  g == Gcd(IF n < 0 THEN -n ELSE n, d)
              IN  <<n \div g, d \div g>>
RLe(a, b) == a[1] * b[2] <= b[1] * a[2]
RLt(a, b) == a[1] * b[2] < b[1] * a[2]
RMax(a, b) == IF RLe(a, b) THEN b ELSE a
\* h * (num / den)
RScale(h, num, den) == Norm(h[1] * num, h[2] * den)

RECURSIVE RSum(_)
RSum(hs) == IF hs = <<>> THEN R(0) ELSE RAdd(hs[1], RSum(Tail(hs)))

Min(a, b) == IF a <= b THEN a ELSE b

\* ------------------------------------------------------------------ text
Space == " "
Newline == "\n"
Period == "."
Bang == "!"
\* \w of the regular expressions: every character of the model's alphabet
\* that is neither punctuation nor whitespace
IsWordChar(c) == c \notin {Period, Space, Newline, Bang}
IsWhitespace(c) == c \in {Space, Newline}

\* String.prototype.trim
RECURSIVE TrimStart(_)
TrimStart(t) == IF t # <<>> /\ IsWhitespace(t[1]) THEN TrimStart(Tail(t)) ELSE t
RECURSIVE TrimEnd(_)
TrimEnd(t) ==
    IF t # <<>> /\ IsWhitespace(t[Len(t)]) THEN TrimEnd(SubSeq(t, 1, Len(t) - 1)) ELSE t
Trim(t) == TrimEnd(TrimStart(t))

\* Array.prototype.join
RECURSIVE Join(_, _)
Join(parts, sep) ==
    IF parts = <<>> THEN <<>>
    ELSE IF Len(parts) = 1 THEN parts[1]
    ELSE parts[1] \o sep \o Join(Tail(parts), sep)

\* text.split(/(\.[^\w]|\.$)/): the pieces between the matches, each followed
\* by the captured match; p is the start of the piece being scanned and q the
\* position tried next (both 1-based)
RECURSIVE SplitFrom(_, _, _, _)
SplitFrom(text, p, q, acc) ==
    IF q > Len(text) THEN Append(acc, SubSeq(text, p, Len(text)))
    ELSE IF text[q] = Period /\ q < Len(text) /\ ~IsWordChar(text[q + 1])
    THEN SplitFrom(text, q + 2, q + 2,
                   acc \o <<SubSeq(text, p, q - 1), SubSeq(text, q, q + 1)>>)
    ELSE IF text[q] = Period /\ q = Len(text)
    THEN SplitFrom(text, q + 1, q + 1, acc \o <<SubSeq(text, p, q - 1), <<Period>>>>)
    ELSE SplitFrom(text, p, q + 1, acc)

SplitParts(text) == SplitFrom(text, 1, 1, <<>>)

\* part.match(/\.[^\w]/) || part === "."
IsTerminator(part) ==
    \/ \E j \in 1..(Len(part) - 1) : part[j] = Period /\ ~IsWordChar(part[j + 1])
    \/ part = <<Period>>

RECURSIVE SentenceLoop(_, _, _, _)
SentenceLoop(parts, i, currentSentence, sentences) ==
    IF i > Len(parts)
    THEN IF Trim(currentSentence) # <<>> THEN Append(sentences, Trim(currentSentence))
         ELSE sentences
    ELSE IF IsTerminator(parts[i])
    THEN LET cs == currentSentence \o parts[i]
         IN  SentenceLoop(parts, i + 1, <<>>,
                          IF Trim(cs) # <<>> THEN Append(sentences, Trim(cs)) ELSE sentences)
    ELSE SentenceLoop(parts, i + 1, currentSentence \o parts[i], sentences)

splitIntoSentences(text) ==
    IF text = <<>> \/ Trim(text) = <<>> THEN <<>>
    ELSE SelectSeq(SentenceLoop(SplitParts(text), 1, <<>>, <<>>), LAMBDA s : Len(s) > 0)

estimateTextHeight(textLen, nodeHeight, originalLen) ==
    IF originalLen = 0 THEN R(MIN_PARAGRAPH_HEIGHT)
    ELSE RMax(RScale(nodeHeight, textLen, originalLen), R(MIN_PARAGRAPH_HEIGHT))

\* a content block: its class attribute ("none" when it has none), its text
\* and the height the view renders it with
Node(class, text, h) == [class |-> class, text |-> text, h |-> h]

getNodeClass(node) == node.class

isSplittableNode(node) ==
    getNodeClass(node) = "dialogue" \/ getNodeClass(node) = "action" \/ getNodeClass(node) = "none"

createNodeWithText(originalNode, text, h) == Node(originalNode.class, text, h)

\* a test that forgets the minimum of the second part
SplitFits_NoSecondMin(sentences, i, nodeHeight, availableHeight, textLen) ==
    LET firstPartText == Join(SubSeq(sentences, 1, i + 1), <<Space>>)
        estimatedHeight == estimateTextHeight(Len(firstPartText), nodeHeight, textLen)
        minHeight == R(MIN_LINES_AFTER_SPLIT * ESTIMATED_LINE_HEIGHT)
    IN  /\ RLe(minHeight, estimatedHeight)
        /\ RLe(estimatedHeight, availableHeight)

\* the three conditions of the search, for the 0-based sentence index i
SplitFits(sentences, i, nodeHeight, availableHeight, textLen) ==
    LET firstPartText == Join(SubSeq(sentences, 1, i + 1), <<Space>>)
        secondPartText == Join(SubSeq(sentences, i + 2, Len(sentences)), <<Space>>)
        estimatedHeight == estimateTextHeight(Len(firstPartText), nodeHeight, textLen)
        secondPartHeight == estimateTextHeight(Len(secondPartText), nodeHeight, textLen)
        minHeight == R(MIN_LINES_AFTER_SPLIT * ESTIMATED_LINE_HEIGHT)
    IN  /\ RLe(minHeight, estimatedHeight)
        /\ RLe(estimatedHeight, availableHeight)
        /\ RLe(minHeight, secondPartHeight)

\* the for loop of trySplitNode: i runs over 0 .. sentences.length - 2
RECURSIVE SplitSearch_FirstFit(_, _, _, _, _, _)
SplitSearch_FirstFit(sentences, i, best, nodeHeight, availableHeight, textLen) ==
    IF i > Len(sentences) - 2 THEN best
    ELSE IF SplitFits(sentences, i, nodeHeight, availableHeight, textLen) THEN i
    ELSE SplitSearch_FirstFit(sentences, i + 1, best, nodeHeight, availableHeight, textLen)

RECURSIVE SplitSearch(_, _, _, _, _, _)
SplitSearch(sentences, i, best, nodeHeight, availableHeight, textLen) ==
    IF i > Len(sentences) - 2 THEN best
    ELSE LET firstPartText == Join(SubSeq(sentences, 1, i + 1), <<Space>>)
             estimatedHeight == estimateTextHeight(Len(firstPartText), nodeHeight, textLen)
         IN  IF SplitFits(sentences, i, nodeHeight, availableHeight, textLen)
             THEN SplitSearch(sentences, i + 1, i, nodeHeight, availableHeight, textLen)
             ELSE IF RLt(availableHeight, estimatedHeight) /\ best >= 0
             THEN best
             ELSE SplitSearch(sentences, i + 1, best, nodeHeight, availableHeight, textLen)

\* a search that stops at the first index that fits
bestSplitIndexOf_FirstFit(sentences, nodeHeight, availableHeight, textLen) ==
    SplitSearch_FirstFit(sentences, 0, -1, nodeHeight, availableHeight, textLen)

bestSplitIndexOf(sentences, nodeHeight, availableHeight, textLen) ==
    SplitSearch(sentences, 0, -1, nodeHeight, availableHeight, textLen)

trySplitNode(node, nodeHeight, availableHeight) ==
    IF ~isSplittableNode(node) THEN Null
    ELSE IF Trim(node.text) = <<>> THEN Null
    ELSE LET text == node.text
             sentences == splitIntoSentences(text)
         IN  IF Len(sentences) < 2 THEN Null
             ELSE LET bestSplitIndex ==
                          bestSplitIndexOf(sentences, nodeHeight, availableHeight, Len(text))
                  IN  IF bestSplitIndex < 0 THEN Null
                      ELSE LET firstPartText ==
                                   Join(SubSeq(sentences, 1, bestSplitIndex + 1), <<Space>>)
                               secondPartText ==
                                   Join(SubSeq(sentences, bestSplitIndex + 2, Len(sentences)),
                                        <<Space>>)
                               firstPartHeight ==
                                   estimateTextHeight(Len(firstPartText), nodeHeight, Len(text))
                               secondPartHeight ==
                                   estimateTextHeight(Len(secondPartText), nodeHeight, Len(text))
                           IN  [firstPart |->
                                    createNodeWithText(node, Trim(firstPartText), firstPartHeight),
                                secondPart |->
                                    createNodeWithText(node, Trim(secondPartText), secondPartHeight),
                                firstPartHeight |-> firstPartHeight,
                                secondPartHeight |-> secondPartHeight,
                                splitItemIndex |-> 0]

\* ------------------------------------------------------------ documents
\* ProseMirror sizes: a text block is its text plus an opening and a closing
\* token; a page is [header?, body, footer?] between its own two tokens
NodeSize(node) == Len(node.text) + 2

RECURSIVE SumSizes(_)
SumSizes(nodes) == IF nodes = <<>> THEN 0 ELSE NodeSize(nodes[1]) + SumSizes(Tail(nodes))

\* header and footer regions are kept as their node size, 0 when absent
Page(header, body, footer, bodyHeight) ==
    [header |-> header, body |-> body, footer |-> footer, bodyHeight |-> bodyHeight]

PageSize(page) == 2 + page.header + (2 + SumSizes(page.body)) + page.footer

RECURSIVE ContentSize(_)
ContentSize(pages) == IF pages = <<>> THEN 0 ELSE PageSize(pages[1]) + ContentSize(Tail(pages))

\* a header/footer region holding one empty paragraph
DefaultHeaderFooterSize == 4

getMaybeNodeSize(size) == size

\* Fragment.eq on the two documents' content: node types, attributes and text
StripHeights(body) == [i \in 1..Len(body) |-> [class |-> body[i].class, text |-> body[i].text]]
PageContent(page) ==
    [header |-> page.header, body |-> StripHeights(page.body), footer |-> page.footer,
     bodyHeight |-> page.bodyHeight]
ContentEq(pagesA, pagesB) ==
    /\ Len(pagesA) = Len(pagesB)
    /\ \A i \in 1..Len(pagesA) : PageContent(pagesA[i]) = PageContent(pagesB[i])

\* a collector that forgets the size of the header region
RECURSIVE CollectPages_NoHeader(_, _, _)
CollectPages_NoHeader(d, i, pageOffset) ==
    IF i > Len(d) THEN <<>>
    ELSE [k \in 1..Len(d[i].body) |->
             [node |-> d[i].body[k],
              pos |-> pageOffset + 1 + SumSizes(SubSeq(d[i].body, 1, k - 1)) + 1]]
         \o CollectPages_NoHeader(d, i + 1, pageOffset + PageSize(d[i]))

\* the children of the body regions, with their positions in the document
RECURSIVE CollectBody(_, _, _)
CollectBody(body, i, bodyStart) ==
    IF i > Len(body) THEN <<>>
    ELSE <<[node |-> body[i], pos |-> bodyStart + SumSizes(SubSeq(body, 1, i - 1)) + 1]>>
         \o CollectBody(body, i + 1, bodyStart)

\* the kinds of node the collector tells apart: a page carries a body
\* height; its body region may be missing, and it may hold, between body and
\* footer, one more node that is neither header, footer nor body
isPageNode(child) == "bodyHeight" \in DOMAIN child
HasBody(page) == "body" \in DOMAIN page
HasOther(page) == "other" \in DOMAIN page
BodyRegionSize(page) == IF HasBody(page) THEN 2 + SumSizes(page.body) ELSE 0
OtherRegionSize(page) == IF HasOther(page) THEN NodeSize(page.other) ELSE 0
ChildSize(child) ==
    IF isPageNode(child)
    THEN 2 + child.header + BodyRegionSize(child) + OtherRegionSize(child) + child.footer
    ELSE NodeSize(child)

\* "pageNode.forEach((pageRegionNode, pageRegionOffset) => ...)"
CollectRegions(page, pageOffset) ==
    (IF HasBody(page) THEN CollectBody(page.body, 1, pageOffset + (page.header + 1)) ELSE <<>>)
    \o (IF HasOther(page)
        THEN <<[node |-> page.other,
                pos |-> pageOffset + ((page.header + BodyRegionSize(page)) + 1)]>>
        ELSE <<>>)

\* a collector that takes the children of body regions and nothing else
RECURSIVE CollectPages_BodiesOnly(_, _, _)
CollectPages_BodiesOnly(d, i, pageOffset) ==
    IF i > Len(d) THEN <<>>
    ELSE (IF isPageNode(d[i]) /\ HasBody(d[i])
          THEN CollectBody(d[i].body, 1, pageOffset + (d[i].header + 1))
          ELSE <<>>)
         \o CollectPages_BodiesOnly(d, i + 1, pageOffset + ChildSize(d[i]))

\* "doc.forEach((pageNode, pageOffset) => ...)"
RECURSIVE CollectPages(_, _, _)
CollectPages(d, i, pageOffset) ==
    IF i > Len(d) THEN <<>>
    ELSE (IF isPageNode(d[i]) THEN CollectRegions(d[i], pageOffset)
          ELSE <<[node |-> d[i], pos |-> pageOffset + 1]>>)
         \o CollectPages(d, i + 1, pageOffset + ChildSize(d[i]))

collectContentNodes(d) == CollectPages(d, 1, 0)

measureNodeHeights(cn) == [i \in 1..Len(cn) |-> cn[i].node.h]

\* ------------------------------------------------------------ position map
\* a Map in insertion order: a sequence of <<old position, new position>>
MapHas(m, k) == \E i \in 1..Len(m) : m[i][1] = k
MapGet(m, k) == m[CHOOSE i \in 1..Len(m) : m[i][1] = k][2]
MapSet(m, k, v) ==
    IF MapHas(m, k) THEN [i \in 1..Len(m) |-> IF m[i][1] = k THEN <<k, v>> ELSE m[i]]
    ELSE Append(m, <<k, v>>)
MapKeys(m) == {m[i][1] : i \in 1..Len(m)}

\* ---------------------------------------------------------------- groups
Group(items, totalHeight, mustStayTogether, groupType, allowDialogueSplit) ==
    [items |-> items, totalHeight |-> totalHeight, mustStayTogether |-> mustStayTogether,
     groupType |-> groupType, allowDialogueSplit |-> allowDialogueSplit]

ClassAt(cn, i) == getNodeClass(cn[i].node)

\* a scene group that takes the next block only when that block is low
SceneGroupAt_HeightAware(cn, nh, i) ==
    IF i + 1 <= Len(cn) /\ ClassAt(cn, i + 1) \in {"none", "action"}
                        /\ RLe(nh[i + 1], R(2 * MIN_PARAGRAPH_HEIGHT))
    THEN Group(<<cn[i], cn[i + 1]>>, RAdd(nh[i], nh[i + 1]), TRUE, "scene", FALSE)
    ELSE Group(<<cn[i]>>, nh[i], TRUE, "scene", FALSE)

\* "Scene heading + first action line"; the group literal sets no
\* allowDialogueSplit, which the code reads as false
SceneGroupAt(cn, nh, i) ==
    IF i + 1 <= Len(cn) /\ ClassAt(cn, i + 1) \in {"none", "action"}
    THEN Group(<<cn[i], cn[i + 1]>>, RAdd(nh[i], nh[i + 1]), TRUE, "scene", FALSE)
    ELSE Group(<<cn[i]>>, nh[i], TRUE, "scene", FALSE)

\* a character group that takes a dialogue block only right after the
\* character block
CharacterGroupAt_DialogueOnly(cn, nh, i) ==
    IF i + 1 <= Len(cn) /\ ClassAt(cn, i + 1) = "dialogue"
    THEN Group(<<cn[i], cn[i + 1]>>, RAdd(nh[i], nh[i + 1]), TRUE, "character-dialogue", TRUE)
    ELSE Group(<<cn[i]>>, nh[i], TRUE, "character-dialogue", TRUE)

\* "Character + (Parenthetical) + Dialogue grouping"
CharacterGroupAt(cn, nh, i) ==
    IF i + 1 <= Len(cn) /\ ClassAt(cn, i + 1) = "parenthetical"
    THEN IF i + 2 <= Len(cn) /\ ClassAt(cn, i + 2) = "dialogue"
         THEN Group(<<cn[i], cn[i + 1], cn[i + 2]>>,
                    RAdd(RAdd(nh[i], nh[i + 1]), nh[i + 2]),
                    TRUE, "character-dialogue", TRUE)
         ELSE Group(<<cn[i], cn[i + 1]>>, RAdd(nh[i], nh[i + 1]),
                    TRUE, "character-dialogue", TRUE)
    ELSE IF i + 1 <= Len(cn) /\ ClassAt(cn, i + 1) = "dialogue"
    THEN Group(<<cn[i], cn[i + 1]>>, RAdd(nh[i], nh[i + 1]),
               TRUE, "character-dialogue", TRUE)
    ELSE Group(<<cn[i]>>, nh[i], TRUE, "character-dialogue", TRUE)

\* a single-node group that is always marked as open to a split
SingleGroupAt_AllSplittable(cn, nh, i) ==
    Group(<<cn[i]>>, nh[i], FALSE, ClassAt(cn, i), TRUE)

\* "Default: single node groups"
SingleGroupAt(cn, nh, i) ==
    Group(<<cn[i]>>, nh[i], FALSE, ClassAt(cn, i), isSplittableNode(cn[i].node))

\* the group that starts at block i (1-based); its length tells where the
\* next group starts
GroupAt(cn, nh, i) ==
    IF ClassAt(cn, i) = "scene" THEN SceneGroupAt(cn, nh, i)
    ELSE IF ClassAt(cn, i) = "character" THEN CharacterGroupAt(cn, nh, i)
    ELSE SingleGroupAt(cn, nh, i)

RECURSIVE GroupsFrom(_, _, _)
GroupsFrom(cn, nh, i) ==
    IF i > Len(cn) THEN <<>>
    ELSE LET group == GroupAt(cn, nh, i)
         IN  <<group>> \o GroupsFrom(cn, nh, i + Len(group.items))

createContentGroups(cn, nh) == GroupsFrom(cn, nh, 1)

\* the first dialogue item of the group, from item i on (0-based), that a
\* split is found for
RECURSIVE GroupSplitFrom(_, _, _, _)
GroupSplitFrom(group, groupHeights, availableHeight, i) ==
    IF i >= Len(group.items) THEN Null
    ELSE LET item == group.items[i + 1]
             heightBeforeDialogue == RSum(SubSeq(groupHeights, 1, i))
             remainingHeight == RSub(availableHeight, heightBeforeDialogue)
             splitResult == trySplitNode(item.node, groupHeights[i + 1], remainingHeight)
         IN  IF /\ getNodeClass(item.node) = "dialogue"
                /\ isSplittableNode(item.node)
                /\ RLt(R(MIN_LINES_AFTER_SPLIT * ESTIMATED_LINE_HEIGHT), remainingHeight)
                /\ splitResult # Null
             THEN [splitResult EXCEPT !.splitItemIndex = i]
             ELSE GroupSplitFrom(group, groupHeights, availableHeight, i + 1)

tryGroupSplit(group, groupHeights, availableHeight) ==
    IF ~group.allowDialogueSplit THEN Null
    ELSE GroupSplitFrom(group, groupHeights, availableHeight, 0)

\* ---------------------------------------------------------- page composer
\* doc.maybeChild(pageNum) exists
HasPage(d, pageNum) == pageNum < Len(d)

isPageNumInRange(d, pageNum) == pageNum >= 0 /\ pageNum < Len(d)

\* getPaginationNodeAttributes(editor, pageNum).bodyPixelDimensions.bodyHeight
getBodyHeight(d, pageNum) == d[pageNum + 1].bodyHeight

\* getPageRegionNode(existingPageNode, region), as a size
getPageRegionNode(page, region) == IF region = "header" THEN page.header ELSE page.footer

\* a region that is always made afresh
constructHeaderFooter_Fresh(region, d, pageNum) == DefaultHeaderFooterSize

constructHeaderFooter(region, d, pageNum) ==
    IF HasPage(d, pageNum) /\ getPageRegionNode(d[pageNum + 1], region) > 0
    THEN getPageRegionNode(d[pageNum + 1], region)
    ELSE DefaultHeaderFooterSize

constructHeader(d, opts, pageNum) ==
    IF opts.enableHeader THEN constructHeaderFooter("header", d, pageNum) ELSE 0

constructFooter(d, opts, pageNum) ==
    IF opts.enableFooter THEN constructHeaderFooter("footer", d, pageNum) ELSE 0

\* the locals of buildNewDocument before the first group
NewDocumentStart(d, opts) ==
    [pageNum |-> 0,
     pages |-> <<>>,
     bodyHeight |-> getBodyHeight(d, 0),
     currentPageHeader |-> constructHeader(d, opts, 0),
     currentPageContent |-> <<>>,
     currentHeight |-> R(0),
     oldToNewPosMap |-> <<>>,
     cumulativeNewDocPos |-> 1 + getMaybeNodeSize(constructHeader(d, opts, 0)) + 1,
     remainingHeight |-> R(0),
     groupFits |-> TRUE,
     needPageBreak |-> FALSE,
     splitResult |-> Null]

\* an entry that records where the page's body starts, not the block
PushMapped_PageStart(b, pos, node) ==
    [b EXCEPT !.oldToNewPosMap = MapSet(@, pos, b.cumulativeNewDocPos),
              !.currentPageContent = Append(@, node)]

\* one "oldToNewPosMap.set(item.pos, ...); currentPageContent.push(node)"
PushMapped(b, pos, node) ==
    LET offsetInPage == SumSizes(b.currentPageContent)
        nodeStartPosInNewDoc == b.cumulativeNewDocPos + offsetInPage
    IN  [b EXCEPT !.oldToNewPosMap = MapSet(@, pos, nodeStartPosInNewDoc),
                  !.currentPageContent = Append(@, node)]

RECURSIVE PushItems(_, _)
PushItems(b, items) ==
    IF items = <<>> THEN b
    ELSE PushItems(PushMapped(b, items[1].pos, items[1].node), Tail(items))

addPage(b, d, opts) ==
    Page(b.currentPageHeader, b.currentPageContent, constructFooter(d, opts, b.pageNum),
         b.bodyHeight)

\* a page break that starts the position count of the new page afresh
BreakPage_ResetPos(b, d, opts) ==
    LET pageNode == addPage(b, d, opts)
        next == b.pageNum + 1
        header == constructHeader(d, opts, next)
    IN  [b EXCEPT !.pages = Append(@, pageNode),
                  !.cumulativeNewDocPos = 1 + getMaybeNodeSize(header) + 1,
                  !.currentPageContent = <<>>,
                  !.currentHeight = R(0),
                  !.pageNum = next,
                  !.bodyHeight = IF isPageNumInRange(d, next) THEN getBodyHeight(d, next) ELSE @,
                  !.currentPageHeader = header]

\* "if (needPageBreak) { addPage ... }" up to the new page's header
BreakPage(b, d, opts) ==
    LET pageNode == addPage(b, d, opts)
        next == b.pageNum + 1
        header == constructHeader(d, opts, next)
    IN  [b EXCEPT !.pages = Append(@, pageNode),
                  !.cumulativeNewDocPos =
                      (@ + PageSize(pageNode) - getMaybeNodeSize(b.currentPageHeader))
                      + getMaybeNodeSize(header),
                  !.currentPageContent = <<>>,
                  !.currentHeight = R(0),
                  !.pageNum = next,
                  !.bodyHeight = IF isPageNumInRange(d, next) THEN getBodyHeight(d, next) ELSE @,
                  !.currentPageHeader = header]

\* the heights of the group's items, found through the position of its first
GroupHeights(group, cn, nh) ==
    LET found == {n \in 1..Len(cn) : cn[n].pos = group.items[1].pos}
    IN  IF found = {} THEN <<>>
        ELSE LET startIndex == CHOOSE n \in found : \A k \in found : n <= k
             IN  [i \in 1..Len(group.items) |-> nh[startIndex + (i - 1)]]

SplitWith(group, groupHeights, remainingHeight) ==
    IF groupHeights # <<>> THEN tryGroupSplit(group, groupHeights, remainingHeight) ELSE Null

SplitFor(group, groupFits, remainingHeight, cn, nh) ==
    IF ~groupFits /\ group.allowDialogueSplit
    THEN SplitWith(group, GroupHeights(group, cn, nh), remainingHeight)
    ELSE Null

\* a decision that keeps only the two look-ahead rules
NeedPageBreak_LookAheadOnly(group, hasNext, groupFits, splitResult, remainingHeight, pageLen) ==
    \/ /\ group.groupType = "scene" /\ groupFits /\ hasNext
       /\ RLt(remainingHeight,
              RAdd(group.totalHeight, R(MIN_PARAGRAPH_HEIGHT * MIN_LINES_ON_PAGE)))
       /\ pageLen > 0
    \/ /\ group.groupType = "character-dialogue" /\ groupFits /\ splitResult = Null
       /\ RLt(remainingHeight, RAdd(group.totalHeight, R(MIN_PARAGRAPH_HEIGHT)))
       /\ pageLen > 0

\* a decision that breaks the page before a group that does not fit only
\* when the group must stay together
NeedPageBreak_MustStayOnly(group, hasNext, groupFits, splitResult, remainingHeight, pageLen) ==
    \/ /\ group.groupType = "scene" /\ groupFits /\ hasNext
       /\ RLt(remainingHeight,
              RAdd(group.totalHeight, R(MIN_PARAGRAPH_HEIGHT * MIN_LINES_ON_PAGE)))
       /\ pageLen > 0
    \/ /\ group.groupType = "character-dialogue" /\ groupFits /\ splitResult = Null
       /\ RLt(remainingHeight, RAdd(group.totalHeight, R(MIN_PARAGRAPH_HEIGHT)))
       /\ pageLen > 0
    \/ group.mustStayTogether /\ ~groupFits /\ splitResult = Null /\ pageLen > 0

\* a decision that closes the page before a group that does not fit, also
\* when the page is empty
NeedPageBreak_OnEmptyPage(group, hasNext, groupFits, splitResult, remainingHeight, pageLen) ==
    \/ ~groupFits /\ splitResult = Null
    \/ /\ group.groupType = "scene" /\ groupFits /\ hasNext
       /\ RLt(remainingHeight,
              RAdd(group.totalHeight, R(MIN_PARAGRAPH_HEIGHT * MIN_LINES_ON_PAGE)))
       /\ pageLen > 0
    \/ /\ group.groupType = "character-dialogue" /\ groupFits /\ splitResult = Null
       /\ RLt(remainingHeight, RAdd(group.totalHeight, R(MIN_PARAGRAPH_HEIGHT)))
       /\ pageLen > 0

\* a decision whose scene rule keeps room for one line only
NeedPageBreak_SceneOneLine(group, hasNext, groupFits, splitResult, remainingHeight, pageLen) ==
    \/ ~groupFits /\ splitResult = Null /\ pageLen > 0
    \/ /\ group.groupType = "scene" /\ groupFits /\ hasNext
       /\ RLt(remainingHeight, RAdd(group.totalHeight, R(MIN_PARAGRAPH_HEIGHT)))
       /\ pageLen > 0
    \/ /\ group.groupType = "character-dialogue" /\ groupFits /\ splitResult = Null
       /\ RLt(remainingHeight, RAdd(group.totalHeight, R(MIN_PARAGRAPH_HEIGHT)))
       /\ pageLen > 0
    \/ group.mustStayTogether /\ ~groupFits /\ splitResult = Null /\ pageLen > 0

\* a decision without the rule for character-dialogue groups
NeedPageBreak_NoDialogueLookAhead(group, hasNext, groupFits, splitResult, remainingHeight, pageLen) ==
    \/ ~groupFits /\ splitResult = Null /\ pageLen > 0
    \/ /\ group.groupType = "scene" /\ groupFits /\ hasNext
       /\ RLt(remainingHeight,
              RAdd(group.totalHeight, R(MIN_PARAGRAPH_HEIGHT * MIN_LINES_ON_PAGE)))
       /\ pageLen > 0
    \/ group.mustStayTogether /\ ~groupFits /\ splitResult = Null /\ pageLen > 0

\* needPageBreak before a split result is applied
NeedPageBreak(group, hasNext, groupFits, splitResult, remainingHeight, pageLen) ==
    \/ ~groupFits /\ splitResult = Null /\ pageLen > 0
    \/ /\ group.groupType = "scene" /\ groupFits /\ hasNext
       /\ RLt(remainingHeight,
              RAdd(group.totalHeight, R(MIN_PARAGRAPH_HEIGHT * MIN_LINES_ON_PAGE)))
       /\ pageLen > 0
    \/ /\ group.groupType = "character-dialogue" /\ groupFits /\ splitResult = Null
       /\ RLt(remainingHeight, RAdd(group.totalHeight, R(MIN_PARAGRAPH_HEIGHT)))
       /\ pageLen > 0
    \/ group.mustStayTogether /\ ~groupFits /\ splitResult = Null /\ pageLen > 0

\* a split whose item gets no entry in the map
ApplySplitFirst_Unmapped(b, group, splitResult) ==
    LET before == PushItems(b, SubSeq(group.items, 1, splitResult.splitItemIndex))
    IN  [before EXCEPT !.currentPageContent = Append(@, splitResult.firstPart)]

\* the items before the split item and its firstPart go to the current page
ApplySplitFirst(b, group, splitResult) ==
    LET before == PushItems(b, SubSeq(group.items, 1, splitResult.splitItemIndex))
        splitItem == group.items[splitResult.splitItemIndex + 1]
    IN  PushMapped(before, splitItem.pos, splitResult.firstPart)

\* a second part that leaves the height counter of the new page alone
ApplySplitSecond_NoHeight(b, group, splitResult) ==
    LET opened == [b EXCEPT !.currentPageContent = Append(@, splitResult.secondPart)]
    IN  PushItems(opened,
                  SubSeq(group.items, splitResult.splitItemIndex + 2, Len(group.items)))

\* secondPart and the items after the split item open the new page
ApplySplitSecond(b, group, splitResult) ==
    LET opened == [b EXCEPT !.currentPageContent = Append(@, splitResult.secondPart),
                            !.currentHeight = RAdd(@, splitResult.secondPartHeight)]
    IN  PushItems(opened,
                  SubSeq(group.items, splitResult.splitItemIndex + 2, Len(group.items)))

\* a placement that breaks the page inside the group, after its first item
AddGroupItems_BreakInside(b, group, d, opts) ==
    IF Len(group.items) > 1 /\ RLt(b.bodyHeight, RAdd(b.currentHeight, group.totalHeight))
    THEN LET first == PushItems(b, SubSeq(group.items, 1, 1))
             rest == PushItems(BreakPage(first, d, opts), Tail(group.items))
         IN  [rest EXCEPT !.currentHeight = RAdd(@, group.totalHeight)]
    ELSE [PushItems(b, group.items) EXCEPT !.currentHeight = RAdd(@, group.totalHeight)]

\* a placement that leaves the height counter alone
AddGroupItems_NoHeight(b, group, d, opts) == PushItems(b, group.items)

\* "for (const item of group.items) ...; currentHeight += group.totalHeight"
AddGroupItems(b, group, d, opts) ==
    [PushItems(b, group.items) EXCEPT !.currentHeight = RAdd(@, group.totalHeight)]

\* the iteration's locals, kept for the next state
Noted(b, remainingHeight, groupFits, needPageBreak, splitResult) ==
    [b EXCEPT !.remainingHeight = remainingHeight,
              !.groupFits = groupFits,
              !.needPageBreak = needPageBreak,
              !.splitResult = splitResult]

\* a placement that never closes the page
PlaceWhole_NoBreak(b, group, d, opts) == AddGroupItems(b, group, d, opts)

\* "if (needPageBreak) {...}" and then the group's items, without a split
PlaceWhole(b, group, d, opts) ==
    AddGroupItems(IF b.needPageBreak THEN BreakPage(b, d, opts) ELSE b, group, d, opts)

\* a split result forces the page break between its two parts
PlaceSplit(b, group, d, opts) ==
    ApplySplitSecond(BreakPage(ApplySplitFirst(b, group, b.splitResult), d, opts),
                     group, b.splitResult)

Place(b, group, hasNext, d, opts, remainingHeight, groupFits, splitResult) ==
    IF splitResult # Null
    THEN PlaceSplit(Noted(b, remainingHeight, groupFits, TRUE, splitResult), group, d, opts)
    ELSE PlaceWhole(Noted(b, remainingHeight, groupFits,
                          NeedPageBreak(group, hasNext, groupFits, splitResult,
                                        remainingHeight, Len(b.currentPageContent)),
                          splitResult),
                    group, d, opts)

Decide(b, group, hasNext, cn, nh, d, opts, remainingHeight, groupFits) ==
    Place(b, group, hasNext, d, opts, remainingHeight, groupFits,
          SplitFor(group, groupFits, remainingHeight, cn, nh))

Remaining(b, group, hasNext, cn, nh, d, opts, remainingHeight) ==
    Decide(b, group, hasNext, cn, nh, d, opts, remainingHeight,
           RLe(group.totalHeight, remainingHeight))

\* one iteration of the loop over contentGroups
ComposeGroup(b, group, hasNext, cn, nh, d, opts) ==
    Remaining(b, group, hasNext, cn, nh, d, opts, RSub(b.bodyHeight, b.currentHeight))

\* an end of the loop that forgets the page still open
FlushedPages_DropLast(b, d, opts) == b.pages

\* the flush of the last page
FlushedPages(b, d, opts) ==
    IF Len(b.currentPageContent) > 0 THEN Append(b.pages, addPage(b, d, opts)) ELSE b.pages

limitMappedCursorPositions(m, docSize) ==
    [i \in 1..Len(m) |-> IF m[i][2] > docSize THEN <<m[i][1], docSize>> ELSE m[i]]

\* ------------------------------------------------------------ cursor mapping
\* inRange(value, min, max) of ./math: min <= value < max
inRange(value, lo, hi) == lo <= value /\ value < hi

\* the forEach over the map: the first entry at the smallest distance
ClosestPos(m, oldCursorPos) ==
    LET Dist(i) == IF m[i][1] >= oldCursorPos THEN m[i][1] - oldCursorPos
                   ELSE oldCursorPos - m[i][1]
    IN  IF m = <<>> THEN 0
        ELSE m[CHOOSE i \in 1..Len(m) :
                   /\ \A j \in 1..Len(m) : Dist(i) <= Dist(j)
                   /\ \A j \in 1..(i - 1) : Dist(j) > Dist(i)][2]

\* a mapping that forgets the start of the block and clamps one too far
mapCursorPosition_NoOffset(cn, oldCursorPos, m, newDocContentSize) ==
    LET hits == {i \in 1..Len(cn) :
                     inRange(oldCursorPos, cn[i].pos, cn[i].pos + NodeSize(cn[i].node))}
    IN  IF hits = {} THEN NoPos
        ELSE LET i == CHOOSE n \in hits : \A k \in hits : n <= k
             IN  IF ~MapHas(m, cn[i].pos)
                 THEN Pos(Min(ClosestPos(m, oldCursorPos), newDocContentSize))
                 ELSE Pos(Min(MapGet(m, cn[i].pos) + oldCursorPos, newDocContentSize))

\* a mapping that puts the cursor at the start of its block
mapCursorPosition_BlockStart(cn, oldCursorPos, m, newDocContentSize) ==
    LET hits == {i \in 1..Len(cn) :
                     inRange(oldCursorPos, cn[i].pos, cn[i].pos + NodeSize(cn[i].node))}
    IN  IF hits = {} THEN NoPos
        ELSE LET i == CHOOSE n \in hits : \A k \in hits : n <= k
             IN  IF ~MapHas(m, cn[i].pos)
                 THEN Pos(Min(ClosestPos(m, oldCursorPos), newDocContentSize - 1))
                 ELSE Pos(Min(MapGet(m, cn[i].pos), newDocContentSize - 1))

\* a mapping that answers with the nearest mapped block when the cursor is in
\* no block
mapCursorPosition_NearestWhenOutside(cn, oldCursorPos, m, newDocContentSize) ==
    LET hits == {i \in 1..Len(cn) :
                     inRange(oldCursorPos, cn[i].pos, cn[i].pos + NodeSize(cn[i].node))}
    IN  IF hits = {} THEN Pos(Min(ClosestPos(m, oldCursorPos), newDocContentSize - 1))
        ELSE LET i == CHOOSE n \in hits : \A k \in hits : n <= k
                 oldNodePos == cn[i].pos
                 offsetInNode == oldCursorPos - oldNodePos
             IN  IF ~MapHas(m, oldNodePos)
                 THEN Pos(Min(ClosestPos(m, oldCursorPos), newDocContentSize - 1))
                 ELSE Pos(Min(MapGet(m, oldNodePos) + offsetInNode, newDocContentSize - 1))

mapCursorPosition(cn, oldCursorPos, m, newDocContentSize) ==
    LET hits == {i \in 1..Len(cn) :
                     inRange(oldCursorPos, cn[i].pos, cn[i].pos + NodeSize(cn[i].node))}
    IN  IF hits = {} THEN NoPos
        ELSE LET i == CHOOSE n \in hits : \A k \in hits : n <= k
                 oldNodePos == cn[i].pos
                 offsetInNode == oldCursorPos - oldNodePos
             IN  IF ~MapHas(m, oldNodePos)
                 THEN Pos(Min(ClosestPos(m, oldCursorPos), newDocContentSize - 1))
                 ELSE Pos(Min(MapGet(m, oldNodePos) + offsetInNode, newDocContentSize - 1))

\* where the selection of the transaction ends up: "mapped" around the new
\* cursor position or at the "end" of the document; found tells whether the
\* selection helpers returned a selection for the position
paginationUpdateCursorPosition(newCursorPos, found) ==
    IF newCursorPos # NoPos
    THEN IF found THEN "mapped" ELSE "end"
    ELSE "end"

\* ------------------------------------------------------------------ state
VARIABLES
    doc,            \* view.state.doc: the sequence of pages
    options,        \* pageAmendmentOptions: enableHeader, enableFooter
    pc,             \* where the pass of buildPageView stands
    pass,           \* "first" pass, or the "second" one on the first one's output
    contentNodes,   \* collectContentNodes(doc)
    nodeHeights,    \* measureNodeHeights(view, contentNodes)
    contentGroups,  \* createContentGroups(contentNodes, nodeHeights)
    g,              \* 1-based index of the next group of the loop
    b,              \* the locals of buildNewDocument
    newDoc,         \* the pages of the composed document
    tr,             \* the transaction the pass dispatched
    sNode,          \* splitter runs: the block handed to trySplitNode
    sAvail,         \* splitter runs: availableHeight
    sResult,        \* splitter runs: what trySplitNode returned
    sPc,            \* splitter runs: "off", "call" or "returned"
    errorLog,       \* the calls of console.error made by the catch block
    twinHeights,    \* grouping runs: a second measurement of the same blocks
    twinGroups,     \* grouping runs: createContentGroups on twinHeights
    gPc,            \* grouping runs: "off", "call" or "returned"
    variant,        \* plugin runs: "throttled" or "chunked" plugin, or "off"
    st,             \* plugin runs: the InternalState objects, the last one current
    run,            \* plugin runs: the asynchronous runs of runPagination in progress
    view,           \* plugin runs: the editor view and the window's timers
    hist            \* plugin runs: what has happened so far

vars == <<doc, options, pc, pass, contentNodes, nodeHeights, contentGroups, g, b, newDoc, tr,
          sNode, sAvail, sResult, sPc, errorLog, twinHeights, twinGroups, gPc,
          variant, st, run, view, hist>>

passVars == <<doc, options, pc, pass, contentNodes, nodeHeights, contentGroups, g, b, newDoc, tr,
              errorLog>>
splitVars == <<sNode, sAvail, sResult, sPc>>
twinVars == <<twinHeights, twinGroups, gPc>>
pluginVars == <<variant, st, run, view, hist>>

\* ------------------------------------------------------------------ inputs
Str1(c1) == <<c1>>
ThreeSentences == <<"a", "a", ".", " ", "a", "a", ".", " ", "a", "a", ".">>
FiveSentences ==
    <<"a", ".", " ", "a", ".", " ", "a", ".", " ", "a", ".", " ", "a", ".">>

\* the kinds of block an input document is made of
Palette ==
    { Node("scene", Str1("s"), R(20)),
      Node("action", Str1("a"), R(15)),
      Node("action", ThreeSentences, R(80)),
      Node("character", Str1("c"), R(10)),
      Node("parenthetical", Str1("p"), R(10)),
      Node("dialogue", FiveSentences, R(40)),
      Node("dialogue", ThreeSentences, R(80)),
      Node("none", Str1("a"), R(15)) }

\* body heights of the pages of an input document
FirstBodyHeight == R(45)
SecondBodyHeight == R(60)

\* header and footer of the first page of an input document: regions whose
\* paragraph holds two characters and one character
CustomHeaderSize == DefaultHeaderFooterSize + 2
CustomFooterSize == DefaultHeaderFooterSize + 1

\* the input document: the blocks on one page or, with cut = 1, the first
\* block on one page and the rest on a second, taller page that has neither
\* header nor footer
InputDoc(blocks, cut) ==
    IF cut = 0 THEN <<Page(CustomHeaderSize, blocks, CustomFooterSize, FirstBodyHeight)>>
    ELSE <<Page(CustomHeaderSize, SubSeq(blocks, 1, cut), CustomFooterSize, FirstBodyHeight),
           Page(0, SubSeq(blocks, cut + 1, Len(blocks)), 0, SecondBodyHeight)>>

\* state.tr as the pass gets it: no step, no meta, the selection of the state,
\* and not dispatched
NoTransaction ==
    [dispatched |-> FALSE, replaced |-> FALSE, paginationMeta |-> FALSE, selectionSet |-> FALSE,
     selection |-> "kept", oldCursorPos |-> NoPos, newCursorPos |-> NoPos]

SplitterOff == sNode = Null /\ sAvail = R(0) /\ sResult = Null /\ sPc = "off"
TwinOff == twinHeights = <<>> /\ twinGroups = <<>> /\ gPc = "off"
PluginOff == variant = "off" /\ st = Null /\ run = Null /\ view = Null /\ hist = Null

Init ==
    /\ \E n \in 1..MaxBlocks : \E blocks \in [1..n -> Palette] : \E cut \in {0, 1} :
           /\ cut < n
           /\ doc = InputDoc(blocks, cut)
    /\ options \in [enableHeader : BOOLEAN, enableFooter : BOOLEAN]
    /\ pc = "idle"
    /\ pass = "first"
    /\ contentNodes = <<>>
    /\ nodeHeights = <<>>
    /\ contentGroups = <<>>
    /\ g = 1
    /\ b = NewDocumentStart(doc, options)
    /\ newDoc = <<>>
    /\ tr = NoTransaction
    /\ errorLog = 0
    /\ SplitterOff
    /\ TwinOff
    /\ PluginOff

\* ----------------------------------------------------------------- actions
\* buildPageView up to the loop of buildNewDocument
StartPass ==
    /\ pc = "idle"
    /\ contentNodes' = collectContentNodes(doc)
    /\ nodeHeights' = measureNodeHeights(contentNodes')
    /\ contentGroups' = createContentGroups(contentNodes', nodeHeights')
    /\ g' = 1
    /\ b' = NewDocumentStart(doc, options)
    /\ newDoc' = <<>>
    /\ tr' = NoTransaction
    /\ pc' = "compose"
    /\ UNCHANGED <<doc, options, pass, errorLog, splitVars, twinVars, pluginVars>>

\* one iteration of "for (let g = 0; g < contentGroups.length; g++)"
ProcessGroup ==
    /\ pc = "compose"
    /\ g <= Len(contentGroups)
    /\ b' = ComposeGroup(b, contentGroups[g], g < Len(contentGroups),
                         contentNodes, nodeHeights, doc, options)
    /\ g' = g + 1
    /\ UNCHANGED <<doc, options, pc, pass, contentNodes, nodeHeights, contentGroups, newDoc, tr,
                   errorLog, splitVars, twinVars, pluginVars>>

\* the end of buildNewDocument: the last page, newDoc, the clamp of the map
FinishDocument ==
    /\ pc = "compose"
    /\ g > Len(contentGroups)
    /\ newDoc' = FlushedPages(b, doc, options)
    /\ b' = [b EXCEPT !.oldToNewPosMap = limitMappedCursorPositions(@, ContentSize(newDoc'))]
    /\ pc' = "built"
    /\ UNCHANGED <<doc, options, pass, contentNodes, nodeHeights, contentGroups, g, tr,
                   errorLog, splitVars, twinVars, pluginVars>>

\* the old cursor offsets tried: the two ends of the document and, for every
\* collected block, the offsets around its start and around its end
CursorOffsets(d, cn) ==
    {0, ContentSize(d)}
    \cup UNION {{cn[i].pos - 1, cn[i].pos, cn[i].pos + 1,
                 cn[i].pos + NodeSize(cn[i].node) - 1, cn[i].pos + NodeSize(cn[i].node)}
                : i \in 1..Len(cn)}

AfterDispatch ==
    /\ pc' = IF pass = "first" THEN "idle" ELSE "done"
    /\ pass' = "second"

\* the transaction of a pass that replaces the document
ReplaceTransaction(oldCursorPos, newCursorPos, found) ==
    [dispatched |-> TRUE,
     replaced |-> TRUE,
     paginationMeta |-> TRUE,
     selectionSet |-> TRUE,
     selection |-> paginationUpdateCursorPosition(newCursorPos, found),
     oldCursorPos |-> Pos(oldCursorPos),
     newCursorPos |-> newCursorPos]

\* the composed content differs: replace, map the cursor, dispatch
DispatchReplace ==
    /\ pc = "built"
    /\ ~ContentEq(newDoc, doc)
    /\ \E oldCursorPos \in CursorOffsets(doc, contentNodes) : \E found \in BOOLEAN :
           tr' = ReplaceTransaction(oldCursorPos,
                                    mapCursorPosition(contentNodes, oldCursorPos,
                                                      b.oldToNewPosMap, ContentSize(newDoc)),
                                    found)
    /\ doc' = newDoc
    /\ AfterDispatch
    /\ UNCHANGED <<options, contentNodes, nodeHeights, contentGroups, g, b, newDoc, errorLog,
                   splitVars, twinVars, pluginVars>>

\* a dispatch that marks the untouched transaction as a pagination
DispatchUnchanged_WithMeta ==
    /\ pc = "built"
    /\ ContentEq(newDoc, doc)
    /\ tr' = [NoTransaction EXCEPT !.dispatched = TRUE, !.paginationMeta = TRUE]
    /\ AfterDispatch
    /\ UNCHANGED <<doc, options, contentNodes, nodeHeights, contentGroups, g, b, newDoc,
                   errorLog, splitVars, twinVars, pluginVars>>

\* the composed content is equal: the transaction is dispatched as it is
DispatchUnchanged ==
    /\ pc = "built"
    /\ ContentEq(newDoc, doc)
    /\ tr' = [NoTransaction EXCEPT !.dispatched = TRUE]
    /\ AfterDispatch
    /\ UNCHANGED <<doc, options, contentNodes, nodeHeights, contentGroups, g, b, newDoc,
                   errorLog, splitVars, twinVars, pluginVars>>

\* a failure that leaves the replacement of a composed document in place
PassThrows_AfterReplace ==
    /\ pc \in {"idle", "compose", "built"}
    /\ errorLog' = errorLog + 1
    /\ tr' = NoTransaction
    /\ pc' = "failed"
    /\ doc' = IF pc = "built" /\ ~ContentEq(newDoc, doc) THEN newDoc ELSE doc
    /\ contentNodes' = <<>>
    /\ nodeHeights' = <<>>
    /\ contentGroups' = <<>>
    /\ g' = 1
    /\ b' = NewDocumentStart(doc, options)
    /\ newDoc' = <<>>
    /\ UNCHANGED <<options, pass, splitVars, twinVars, pluginVars>>

\* "catch (error) { console.error(...) }": a step of the pass throws (the
\* collector or a measurement, the composer, the cursor mapping or the
\* selection update); the transaction of the pass is dropped undispatched
PassThrows ==
    /\ pc \in {"idle", "compose", "built"}
    /\ errorLog' = errorLog + 1
    /\ tr' = NoTransaction
    /\ pc' = "failed"
    /\ contentNodes' = <<>>
    /\ nodeHeights' = <<>>
    /\ contentGroups' = <<>>
    /\ g' = 1
    /\ b' = NewDocumentStart(doc, options)
    /\ newDoc' = <<>>
    /\ UNCHANGED <<doc, options, pass, splitVars, twinVars, pluginVars>>

Next ==
    \/ StartPass
    \/ ProcessGroup
    \/ FinishDocument
    \/ DispatchReplace
    \/ DispatchUnchanged
    \/ PassThrows

Spec == Init /\ [][Next]_vars

\* -------------------------------------------------------- splitter runs
Alphabet == {"a", Period, Space, Newline, Bang}
Texts == UNION {[1..n -> Alphabet] : n \in 0..MaxLen}
SplitClasses == {"dialogue", "action", "none", "scene"}
SplitHeights == {R(40), R(100)}
SplitAvailable == {R(25), R(70)}

InitSplit ==
    /\ sNode \in {Node(c, t, h) : c \in SplitClasses, t \in Texts, h \in SplitHeights}
    /\ sAvail \in SplitAvailable
    /\ sResult = Null
    /\ sPc = "call"
    /\ doc = <<Page(0, <<Node("none", Str1("a"), R(15))>>, 0, R(45))>>
    /\ options = [enableHeader |-> FALSE, enableFooter |-> FALSE]
    /\ pc = "off"
    /\ pass = "first"
    /\ contentNodes = <<>>
    /\ nodeHeights = <<>>
    /\ contentGroups = <<>>
    /\ g = 1
    /\ b = NewDocumentStart(doc, options)
    /\ newDoc = <<>>
    /\ tr = NoTransaction
    /\ errorLog = 0
    /\ TwinOff
    /\ PluginOff

CallTrySplitNode ==
    /\ sPc = "call"
    /\ sResult' = trySplitNode(sNode, sNode.h, sAvail)
    /\ sPc' = "returned"
    /\ UNCHANGED <<sNode, sAvail, passVars, twinVars, pluginVars>>

NextSplit == CallTrySplitNode

SpecSplit == InitSplit /\ [][NextSplit]_vars

\* ---------------------------------------------------------- grouping runs
\* createContentGroups on the same blocks under two measurements
Classes == {"scene", "action", "character", "parenthetical", "dialogue", "none"}
GroupingHeights == {R(MIN_PARAGRAPH_HEIGHT), R(25)}

InitGroups ==
    /\ \E n \in 1..MaxBlocks : \E tags \in [1..n -> Classes] :
       \E hs \in [1..n -> GroupingHeights] :
           /\ doc = <<Page(0, [i \in 1..n |-> Node(tags[i], Str1("a"), hs[i])], 0,
                           FirstBodyHeight)>>
           /\ twinHeights \in [1..n -> GroupingHeights]
    /\ contentNodes = collectContentNodes(doc)
    /\ nodeHeights = measureNodeHeights(contentNodes)
    /\ contentGroups = <<>>
    /\ twinGroups = <<>>
    /\ gPc = "call"
    /\ options = [enableHeader |-> FALSE, enableFooter |-> FALSE]
    /\ pc = "off"
    /\ pass = "first"
    /\ g = 1
    /\ b = NewDocumentStart(doc, options)
    /\ newDoc = <<>>
    /\ tr = NoTransaction
    /\ errorLog = 0
    /\ SplitterOff
    /\ PluginOff

CallCreateContentGroups ==
    /\ gPc = "call"
    /\ contentGroups' = createContentGroups(contentNodes, nodeHeights)
    /\ twinGroups' = createContentGroups(contentNodes, twinHeights)
    /\ gPc' = "returned"
    /\ UNCHANGED <<doc, options, pc, pass, contentNodes, nodeHeights, g, b, newDoc, tr, errorLog,
                   twinHeights, splitVars, pluginVars>>

NextGroups == CallCreateContentGroups

SpecGroups == InitGroups /\ [][NextGroups]_vars

\* ------------------------------------------------------------ collector runs
\* the children a document can have at its top level: pages as the composer
\* makes them, a page without a body region, a page with one more region
\* node, and blocks that sit outside every page
TopLevelChildren ==
    { Page(CustomHeaderSize, <<Node("scene", Str1("s"), R(20))>>, CustomFooterSize,
           FirstBodyHeight),
      Page(0, <<Node("character", Str1("c"), R(10)), Node("dialogue", Str1("d"), R(10))>>, 0,
           SecondBodyHeight),
      [header |-> CustomHeaderSize, footer |-> 0, bodyHeight |-> FirstBodyHeight],
      [header |-> DefaultHeaderFooterSize, body |-> <<Node("action", Str1("a"), R(15))>>,
       other |-> Node("none", Str1("x"), R(10)), footer |-> CustomFooterSize,
       bodyHeight |-> FirstBodyHeight],
      Node("action", Str1("a"), R(15)),
      Node("none", <<"a", "b">>, R(15)) }

InitCollect ==
    /\ \E n \in 1..MaxBlocks : doc \in [1..n -> TopLevelChildren]
    /\ options = [enableHeader |-> TRUE, enableFooter |-> TRUE]
    /\ pc = "collect"
    /\ pass = "first"
    /\ contentNodes = <<>>
    /\ nodeHeights = <<>>
    /\ contentGroups = <<>>
    /\ g = 1
    /\ b = Null
    /\ newDoc = <<>>
    /\ tr = NoTransaction
    /\ errorLog = 0
    /\ SplitterOff
    /\ TwinOff
    /\ PluginOff

\* "const contentNodes = collectContentNodes(doc)": the collector has no
\* throw statement and calls nothing that rejects a node
CallCollectContentNodes ==
    /\ pc = "collect"
    /\ contentNodes' = collectContentNodes(doc)
    /\ pc' = "collected"
    /\ UNCHANGED <<doc, options, pass, nodeHeights, contentGroups, g, b, newDoc, tr, errorLog,
                   splitVars, twinVars, pluginVars>>

NextCollect == CallCollectContentNodes

SpecCollect == InitCollect /\ [][NextCollect]_vars

\* ------------------------------------------------------- cursor mapping runs
\* mapCursorPosition and the selection update on maps that miss blocks
MappedTo == {1, 9, 30}
\* the maps over the blocks from block i on, in document order: each block
\* has no entry or an entry with one of the new positions
RECURSIVE PartialMaps(_, _)
PartialMaps(cn, i) ==
    IF i > Len(cn) THEN {<<>>}
    ELSE LET rest == PartialMaps(cn, i + 1)
         IN  rest \cup {<<<<cn[i].pos, v>>>> \o m : v \in MappedTo, m \in rest}

InitCursor ==
    /\ \E n \in 1..MaxBlocks :
           doc = <<Page(CustomHeaderSize, [i \in 1..n |-> Node("action", Str1("a"), R(15))],
                        CustomFooterSize, FirstBodyHeight)>>
    /\ contentNodes = collectContentNodes(doc)
    /\ nodeHeights = measureNodeHeights(contentNodes)
    /\ contentGroups = createContentGroups(contentNodes, nodeHeights)
    /\ options = [enableHeader |-> TRUE, enableFooter |-> TRUE]
    /\ \E m \in PartialMaps(contentNodes, 1) :
           b = [NewDocumentStart(doc, options) EXCEPT !.oldToNewPosMap = m]
    /\ newDoc = doc
    /\ \E c \in 0..ContentSize(doc) :
           tr = [NoTransaction EXCEPT !.oldCursorPos = Pos(c)]
    /\ g = 1
    /\ pc = "map"
    /\ pass = "first"
    /\ errorLog = 0
    /\ SplitterOff
    /\ TwinOff
    /\ PluginOff

\* "const newCursorPos = mapCursorPosition(...); paginationUpdateCursorPosition(tr, newCursorPos)"
CallMapCursorPosition ==
    /\ pc = "map"
    /\ \E found \in BOOLEAN :
           tr' = ReplaceTransaction(tr.oldCursorPos[1],
                                    mapCursorPosition(contentNodes, tr.oldCursorPos[1],
                                                      b.oldToNewPosMap, ContentSize(newDoc)),
                                    found)
    /\ pc' = "mapped"
    /\ UNCHANGED <<doc, options, pass, contentNodes, nodeHeights, contentGroups, g, b, newDoc,
                   errorLog, splitVars, twinVars, pluginVars>>

NextCursor == CallMapCursorPosition

SpecCursor == InitCursor /\ [][NextCursor]_vars

\* ------------------------------------------- passes and splitter runs
\* the behaviours of both: a run is either a run of passes or a splitter run
InitPassOrSplit == Init \/ InitSplit
NextPassOrSplit == Next \/ NextSplit
SpecPassOrSplit == InitPassOrSplit /\ [][NextPassOrSplit]_vars

\* ------------------------------------------------------------ plugin runs
\* the two pagination plugins: the throttled one, whose runPagination calls
\* buildPageView synchronously, and the chunked one, whose runPagination
\* awaits the worker's analysis first. Timers and idle callbacks fire in any
\* order. Timers, idle callbacks and executors are told apart by an id; in a
\* field of the state object, 0 stands for null.

\* "init: () => ({...})"; pending is the window pendingFrom .. pendingTo:
\* "none" (both null), "window" or "full" (the whole document).
\* remoteBatchCount is written by update() and read by nothing; it is left
\* out of the object
InternalStateInit ==
    [isPaginating |-> FALSE, throttleTimer |-> 0, idleCancel |-> 0, queued |-> FALSE,
     composing |-> FALSE, pending |-> "none", currentExecutor |-> 0, lastPaginationId |-> 0]

\* the view and its window: the version of the document, the document
\* updates seen, the timers and idle callbacks outstanding (each bound to the
\* state object its closure captured), the executors aborted so far
ViewInit ==
    [version |-> 0, updates |-> 0, destroyed |-> FALSE, timers |-> {}, idles |-> {},
     aborted |-> {}]

\* the history kept for the claims: the calls of buildPageView, the version
\* of the document the last call ran on, and, for the last document update,
\* what was in flight when it arrived ("none", a pass "inProgress" or one
\* "queued"), whether that run has ended, whether it called buildPageView,
\* and the calls made after it ended; then whether buildPageView was ever
\* called while composing, with an aborted executor, or after destroy(), and
\* whether the pending window was ever cleared by a run that had not
\* paginated with success
NoHistory ==
    [passes |-> 0, ranOn |-> -1, arrived |-> "none", inflightEnded |-> FALSE,
     inflightRan |-> FALSE, further |-> 0, ranComposing |-> FALSE, ranAborted |-> FALSE,
     ranDestroyed |-> FALSE, resetUnpaginated |-> FALSE]

Arrived(h, s) ==
    [h EXCEPT !.arrived = IF s.isPaginating THEN "inProgress"
                          ELSE IF s.queued THEN "queued" ELSE "none",
              !.inflightEnded = FALSE,
              !.inflightRan = FALSE,
              !.further = 0]

Ended(h, ran) ==
    IF h.arrived # "none" /\ ~h.inflightEnded
    THEN [h EXCEPT !.inflightEnded = TRUE, !.inflightRan = ran]
    ELSE h

\* an id the window has not handed out: ids are never used twice, so one
\* that nothing refers to any more stands for any new one
UsedIds(w) ==
    {t.id : t \in w.view.timers} \cup {i.id : i \in w.view.idles}
    \cup {r.executor : r \in w.run} \cup w.view.aborted
    \cup UNION {{w.st[o].throttleTimer, w.st[o].idleCancel, w.st[o].currentExecutor}
                : o \in 1..Len(w.st)}
FreshId(w) == CHOOSE n \in 1..(Cardinality(UsedIds(w)) + 1) :
                  n \notin UsedIds(w) /\ \A m \in 1..(n - 1) : m \in UsedIds(w)

\* the state object that key.getState(view.state) returns
Current(w) == Len(w.st)

\* schedulePagination: the throttle timer of the object is cleared and a new
\* one is set, whose closure holds the object
schedulePagination(w, o) ==
    [w EXCEPT !.view.timers = {t \in @ : t.id # w.st[o].throttleTimer}
                                  \cup {[id |-> FreshId(w), obj |-> o]},
              !.st[o].throttleTimer = FreshId(w)]

\* "schedule()" of schedulePagination, run when the throttle timer fires
schedule(w, o) ==
    IF w.st[o].queued THEN w
    ELSE [w EXCEPT !.st[o].queued = TRUE,
                   !.view.idles = {i \in @ : i.id # w.st[o].idleCancel}
                                      \cup {[id |-> FreshId(w), obj |-> o]},
                   !.st[o].idleCancel = FreshId(w)]

\* accumulateRange and the forceFull window
accumulateRange(s, forceFull) ==
    [s EXCEPT !.pending = IF forceFull \/ @ = "full" THEN "full" ELSE "window"]

\* "if (st.currentExecutor) st.currentExecutor.abort()"
AbortCurrent(w, o) ==
    IF w.st[o].currentExecutor # 0
    THEN [w EXCEPT !.view.aborted = @ \cup {w.st[o].currentExecutor}]
    ELSE w

\* update(v, prevState) for a transaction that changed the document, on the
\* world w = [st, run, view, hist]
OnUpdate(w, forceFull) ==
    LET o == Current(w)
        seen == [w EXCEPT !.view.version = @ + 1,
                          !.view.updates = @ + 1,
                          !.hist = Arrived(@, w.st[o])]
        ranged == [seen EXCEPT !.st[o] = accumulateRange(@, forceFull)]
    IN  IF w.st[o].composing THEN schedulePagination(seen, o)
        ELSE IF w.st[o].isPaginating \/ w.st[o].queued
        THEN schedulePagination(AbortCurrent(ranged, o), o)
        ELSE schedulePagination(ranged, o)

\* the outcomes of one call of buildPageView: it dispatched a transaction
\* that replaced the document, it left the document as it was, it caught an
\* error of its own and returned, or it threw
Outcomes == {"replaced", "unchanged", "failed", "threw"}

\* the call of buildPageView as the claims see it; executor is the id of the
\* calling run's executor, 0 when it has none
Invoked(w, executor) ==
    [w.hist EXCEPT !.passes = @ + 1,
                   !.ranOn = w.view.version,
                   !.further = IF w.hist.arrived # "none" /\ w.hist.inflightEnded
                               THEN @ + 1 ELSE @,
                   !.ranComposing = @ \/ w.st[Current(w)].composing,
                   !.ranAborted = @ \/ executor \in w.view.aborted,
                   !.ranDestroyed = @ \/ w.view.destroyed]

\* one call of buildPageView by the plugin; the transaction of a call that
\* replaced the document comes back to update() before the call returns
InvokeBuildPageView(w, executor, outcome, forceFull) ==
    LET called == [w EXCEPT !.hist = Invoked(w, executor), !.ran = TRUE,
                            !.paginated = outcome \in {"replaced", "unchanged"}]
    IN  IF outcome = "replaced" THEN OnUpdate(called, forceFull)
        ELSE IF outcome = "threw" THEN [called EXCEPT !.threw = TRUE]
        ELSE called

World ==
    [st |-> st, run |-> run, view |-> view, hist |-> hist, threw |-> FALSE, ran |-> FALSE,
     paginated |-> FALSE]

\* "st.pendingFrom = null; st.pendingTo = null"
ResetPending(w, o) ==
    [w EXCEPT !.st[o].pending = "none",
              !.hist.resetUnpaginated = @ \/ (w.st[o].pending # "none" /\ ~w.paginated)]

\* runPagination of the throttled plugin, from its guard to its finally, with
\* the state object o its closure holds
runPaginationSync(w, o, outcome, forceFull) ==
    IF w.st[o].isPaginating THEN w
    ELSE LET built == InvokeBuildPageView([w EXCEPT !.st[o].isPaginating = TRUE],
                                          0, outcome, forceFull)
             reset == IF built.threw THEN built ELSE ResetPending(built, o)
         IN  [reset EXCEPT !.st[o].isPaginating = FALSE, !.hist = Ended(@, TRUE)]

\* runPagination of the chunked plugin up to "await worker.analyze(docData)"
runPaginationStart(w, o) ==
    IF w.st[o].isPaginating THEN w
    ELSE LET previous == AbortCurrent(w, o)
         IN  [previous EXCEPT !.st[o] = [@ EXCEPT !.isPaginating = TRUE,
                                                  !.lastPaginationId = @ + 1,
                                                  !.currentExecutor = FreshId(w)],
                              !.run = @ \cup {[obj |-> o,
                                               currentId |-> w.st[o].lastPaginationId + 1,
                                               executor |-> FreshId(w)]}]

\* applyPaginationWithChunking without "if (!executor.isAborted())"
applyPaginationWithChunking_NoAbortCheck(w, r, outcome, forceFull) ==
    InvokeBuildPageView(w, r.executor, outcome, forceFull)

\* applyPaginationWithChunking: buildPageView is called unless the executor
\* was aborted
applyPaginationWithChunking(w, r, outcome, forceFull) ==
    IF r.executor \in w.view.aborted THEN w
    ELSE InvokeBuildPageView(w, r.executor, outcome, forceFull)

\* buildPageViewChunked after the analysis: with a result, apply unless
\* aborted, and apply once more from the catch block when that throws;
\* without a result, apply from the catch block
buildPageViewChunked(w, r, analysed, outcome, retry, forceFull) ==
    IF analysed
    THEN LET first == IF r.executor \in w.view.aborted THEN w
                      ELSE applyPaginationWithChunking(w, r, outcome, forceFull)
         IN  IF first.threw
             THEN applyPaginationWithChunking([first EXCEPT !.threw = FALSE], r, retry,
                                              forceFull)
             ELSE first
    ELSE applyPaginationWithChunking(w, r, outcome, forceFull)

\* runPagination of the chunked plugin from the end of the await to its
\* finally
runPaginationEnd(w, r, analysed, outcome, retry, forceFull) ==
    LET built == buildPageViewChunked(w, r, analysed, outcome, retry, forceFull)
        current == r.currentId = built.st[r.obj].lastPaginationId
        reset == IF ~built.threw /\ current THEN ResetPending(built, r.obj) ELSE built
        final == IF current
                 THEN [reset EXCEPT !.st[r.obj].isPaginating = FALSE,
                                    !.st[r.obj].currentExecutor = 0]
                 ELSE reset
    IN  [final EXCEPT !.run = @ \ {r}, !.hist = Ended(@, built.ran)]

\* the document updates a run of the model may see, and the state objects
\* the plugin may have had
MaxUpdates == 2
MaxObjects == 2

\* the state objects that something can still read: the current one, and
\* those held by the closure of a timer, of an idle callback or of a run
Held(w) ==
    {Current(w)} \cup {t.obj : t \in w.view.timers} \cup {i.obj : i \in w.view.idles}
    \cup {r.obj : r \in w.run}

\* the next state; the aborted flag of an executor whose run has ended, the
\* fields of a state object that nothing holds, and the composing flag of an
\* object that is no longer the current one, are read by nothing any more
Step(w) ==
    /\ st' = [o \in 1..Len(w.st) |->
                  IF o = Current(w) THEN w.st[o]
                  ELSE IF o \in Held(w) THEN [w.st[o] EXCEPT !.composing = FALSE]
                  ELSE InternalStateInit]
    /\ run' = w.run
    /\ view' = [w.view EXCEPT !.aborted = @ \cap {r.executor : r \in w.run}]
    /\ hist' = w.hist
    /\ UNCHANGED <<variant, passVars, splitVars, twinVars>>

\* a transaction from outside changes the document and the view calls
\* update(); the throttled plugin's pass is synchronous, so such a transaction
\* never falls inside it
ViewUpdate ==
    /\ ~view.destroyed
    /\ view.updates < MaxUpdates
    /\ \E forceFull \in BOOLEAN : Step(OnUpdate(World, forceFull))

\* "apply(tr, value)" for a transaction with composition meta: the plugin
\* state becomes a copy of the object with composing = true; the view then
\* calls update(), which returns at once when the document did not change
CompositionTransaction ==
    /\ ~view.destroyed
    /\ Len(st) < MaxObjects
    /\ \E changed \in BOOLEAN :
           LET copied == [World EXCEPT
                             !.st = Append(@, [st[Len(st)] EXCEPT !.composing = TRUE])]
           IN  IF changed
               THEN view.updates < MaxUpdates /\ Step(OnUpdate(copied, FALSE))
               ELSE Step(copied)

CompositionStart ==
    /\ ~view.destroyed /\ ~st[Len(st)].composing
    /\ Step([World EXCEPT !.st[Len(st)].composing = TRUE])

CompositionEnd ==
    /\ ~view.destroyed /\ st[Len(st)].composing
    /\ Step([World EXCEPT !.st[Len(st)].composing = FALSE])

\* a throttle timer fires: "st.throttleTimer = null; schedule()"
ThrottleFires ==
    \E t \in view.timers :
        Step(schedule([World EXCEPT !.view.timers = @ \ {t}, !.st[t.obj].throttleTimer = 0],
                      t.obj))

\* an idle callback of the throttled plugin: "st.idleCancel = null;
\* st.queued = false; run()"
IdleFiresThrottled ==
    /\ variant = "throttled"
    /\ \E i \in view.idles : \E outcome \in Outcomes : \E forceFull \in BOOLEAN :
           /\ outcome = "replaced" => view.updates < MaxUpdates
           /\ outcome # "replaced" => ~forceFull
           /\ Step(runPaginationSync([World EXCEPT !.view.idles = @ \ {i},
                                                   !.st[i.obj].idleCancel = 0,
                                                   !.st[i.obj].queued = FALSE],
                                     i.obj, outcome, forceFull))

\* an idle callback of the chunked plugin
IdleFiresChunked ==
    /\ variant = "chunked"
    /\ \E i \in view.idles :
           Step(runPaginationStart([World EXCEPT !.view.idles = @ \ {i},
                                                 !.st[i.obj].idleCancel = 0,
                                                 !.st[i.obj].queued = FALSE],
                                   i.obj))

\* the worker's analysis resolves or rejects and runPagination goes on; an
\* input that the run does not come to read is given one value only
AnalysisDone ==
    \E r \in run : \E analysed \in BOOLEAN : \E outcome \in Outcomes : \E retry \in Outcomes :
    \E forceFull \in BOOLEAN :
        /\ (outcome = "replaced" \/ retry = "replaced") => view.updates < MaxUpdates
        /\ (~analysed \/ outcome # "threw") => retry = "unchanged"
        /\ (outcome # "replaced" /\ retry # "replaced") => ~forceFull
        /\ Step(runPaginationEnd(World, r, analysed, outcome, retry, forceFull))

\* destroy() of the plugin view, on the state object of the time
Destroy ==
    /\ ~view.destroyed
    /\ LET o == Len(st)
           cleared == [World EXCEPT
                          !.view.timers = {t \in @ : t.id # st[o].throttleTimer},
                          !.view.idles = {i \in @ : i.id # st[o].idleCancel},
                          !.st[o].idleCancel = 0]
       IN  Step([AbortCurrent(cleared, o) EXCEPT !.st[o].currentExecutor = 0,
                                                 !.view.destroyed = TRUE])

InitPlugin ==
    /\ variant \in {"throttled", "chunked"}
    /\ st = <<InternalStateInit>>
    /\ run = {}
    /\ view = ViewInit
    /\ hist = NoHistory
    /\ doc = <<Page(0, <<Node("none", Str1("a"), R(15))>>, 0, R(45))>>
    /\ options = [enableHeader |-> FALSE, enableFooter |-> FALSE]
    /\ pc = "off"
    /\ pass = "first"
    /\ contentNodes = <<>>
    /\ nodeHeights = <<>>
    /\ contentGroups = <<>>
    /\ g = 1
    /\ b = NewDocumentStart(doc, options)
    /\ newDoc = <<>>
    /\ tr = NoTransaction
    /\ errorLog = 0
    /\ SplitterOff
    /\ TwinOff

NextPlugin ==
    \/ ViewUpdate
    \/ CompositionTransaction
    \/ CompositionStart
    \/ CompositionEnd
    \/ ThrottleFires
    \/ IdleFiresThrottled
    \/ IdleFiresChunked
    \/ AnalysisDone
    \/ Destroy

SpecPlugin == InitPlugin /\ [][NextPlugin]_vars

\* ------------------------------------------------------------------ claims
\* the group the last step of the loop processed, and its nodes
Processed == pc = "compose" /\ g > 1
LastGroup == contentGroups[g - 1]
GroupNodes(group) == [i \in 1..Len(group.items) |-> group.items[i].node]
EndsWith(seq, tail) ==
    Len(seq) >= Len(tail) /\ SubSeq(seq, Len(seq) - Len(tail) + 1, Len(seq)) = tail
RECURSIVE BlockCount(_)
BlockCount(pages) == IF pages = <<>> THEN 0 ELSE Len(pages[1].body) + BlockCount(Tail(pages))
PassEnded == pc \in {"built", "idle", "done"} /\ contentNodes # <<>>
TwoLines == R(MIN_LINES_AFTER_SPLIT * MIN_PARAGRAPH_HEIGHT)

\* C1: a pass on the output of the previous pass, each block measured at the
\* height used or estimated for it, composes an equal document: nothing is
\* replaced and the selection is left alone.
C1_Idempotence ==
    /\ (pass = "second" /\ pc = "built") => ContentEq(newDoc, doc)
    /\ pc = "done" => ~tr.replaced

\* C2: a group that must stay together, and for which the pass produced no
\* split result, sits whole on one page: right after it is processed all its
\* items are the last blocks of the page under construction.
C2_GroupingAtomicity ==
    (Processed /\ LastGroup.mustStayTogether /\ b.splitResult = Null)
        => EndsWith(b.currentPageContent, GroupNodes(LastGroup))

\* a must-stay-together group of several items that did not fit, could not
\* be split and was moved to the next page
C2_Witness ==
    /\ Processed /\ LastGroup.mustStayTogether /\ b.splitResult = Null
    /\ Len(LastGroup.items) >= 2
    /\ ~b.groupFits /\ b.needPageBreak
    /\ b.currentPageContent = GroupNodes(LastGroup)

\* C3: the text of firstPart, one space, and the text of secondPart are the
\* text of the block that was split, character for character.
C3_TextConservation ==
    (sPc = "returned" /\ sResult # Null)
        => sResult.firstPart.text \o <<Space>> \o sResult.secondPart.text = sNode.text

\* C4: every split result has both parts at least two lines high and the
\* first part no higher than the available height.
C4_MinimumSplitMargins ==
    (sPc = "returned" /\ sResult # Null)
        => /\ RLe(TwoLines, sResult.firstPartHeight)
           /\ RLe(TwoLines, sResult.secondPartHeight)
           /\ RLe(sResult.firstPartHeight, sAvail)

\* a split whose second part is exactly two lines high
C4_Witness ==
    /\ sPc = "returned" /\ sResult # Null
    /\ sResult.secondPartHeight = TwoLines
    /\ RLt(TwoLines, sResult.firstPartHeight)

\* the scenario: a character block of height 10 and a dialogue block of
\* height 40 with five sentences, processed with 30 units left on the page
\* (a page with 30 left of a body height of 45 or 60 already has content)
ScenarioB ==
    /\ Processed
    /\ GroupNodes(LastGroup) =
           <<Node("character", Str1("c"), R(10)), Node("dialogue", FiveSentences, R(40))>>
    /\ b.remainingHeight = R(30)

\* C5 as stated: in the scenario the dialogue is split, the character block
\* and firstPart stay on the page and secondPart opens the next page.
C5_ScenarioB_Split ==
    ScenarioB => /\ b.splitResult # Null
                 /\ b.currentPageContent = <<b.splitResult.secondPart>>

\* C5 amended: in the scenario no split is made (the 20 units left for the
\* dialogue after the character block do not exceed two lines); the page is
\* closed and the whole group opens the next page.
C5_ScenarioB_Deferred ==
    ScenarioB => /\ b.splitResult = Null
                 /\ b.needPageBreak
                 /\ b.currentPageContent = GroupNodes(LastGroup)
                 /\ b.currentHeight = R(50)

C5_Witness == ScenarioB /\ Len(b.pages) >= 1

\* the conditions of a split at the 0-based sentence index k, from the
\* estimated heights
KSatisfies(node, availableHeight, k) ==
    LET sentences == splitIntoSentences(node.text)
        first == Join(SubSeq(sentences, 1, k + 1), <<Space>>)
        second == Join(SubSeq(sentences, k + 2, Len(sentences)), <<Space>>)
    IN  /\ RLe(TwoLines, estimateTextHeight(Len(first), node.h, Len(node.text)))
        /\ RLe(estimateTextHeight(Len(first), node.h, Len(node.text)), availableHeight)
        /\ RLe(TwoLines, estimateTextHeight(Len(second), node.h, Len(node.text)))
ValidIndices(node, availableHeight) ==
    {k \in 0..(Len(splitIntoSentences(node.text)) - 2) : KSatisfies(node, availableHeight, k)}

\* C6: for a splittable block of at least two sentences, the result is null
\* exactly when no index satisfies the three conditions, and otherwise its
\* firstPart holds the sentences 0..k for the largest such index k.
C6_LargestValidIndex ==
    (sPc = "returned" /\ isSplittableNode(sNode) /\ Len(splitIntoSentences(sNode.text)) >= 2)
        => /\ (sResult = Null) <=> (ValidIndices(sNode, sAvail) = {})
           /\ sResult # Null =>
                  \E k \in ValidIndices(sNode, sAvail) :
                      /\ \A j \in ValidIndices(sNode, sAvail) : j <= k
                      /\ sResult.firstPart.text =
                             Join(SubSeq(splitIntoSentences(sNode.text), 1, k + 1), <<Space>>)

\* two indices satisfy the conditions and the larger one is taken
C6_Witness ==
    /\ sPc = "returned" /\ sResult # Null
    /\ ValidIndices(sNode, sAvail) = {0, 1}
    /\ sResult.firstPart.text = Join(SubSeq(splitIntoSentences(sNode.text), 1, 2), <<Space>>)

\* C7: a standalone action group that does not fit, with more than the
\* threshold left on the page and a valid split index, is split: secondPart
\* opens the next page.
C7_ActionSplitApplied ==
    (/\ Processed
     /\ LastGroup.groupType = "action" /\ Len(LastGroup.items) = 1
     /\ ~b.groupFits
     /\ RLt(TwoLines, b.remainingHeight)
     /\ ValidIndices(LastGroup.items[1].node, b.remainingHeight) # {})
        => /\ b.splitResult # Null
           /\ b.currentPageContent = <<b.splitResult.secondPart>>

\* C8: at the end of a pass the map is monotonic: a < b implies
\* map[a] <= map[b].
C8_MonotonicMap ==
    PassEnded =>
        \A i, j \in 1..Len(b.oldToNewPosMap) :
            b.oldToNewPosMap[i][1] < b.oldToNewPosMap[j][1]
                => b.oldToNewPosMap[i][2] <= b.oldToNewPosMap[j][2]

\* a pass that split a block and made at least two pages
C8_Witness ==
    /\ pc = "built" /\ Len(newDoc) >= 2
    /\ BlockCount(newDoc) > Len(contentNodes)
    /\ Len(b.oldToNewPosMap) >= 3

InsideBlock(c) ==
    \E i \in 1..Len(contentNodes) :
        inRange(c, contentNodes[i].pos, contentNodes[i].pos + NodeSize(contentNodes[i].node))

\* C9: an old cursor offset inside a collected block is mapped to an offset
\* n with 0 <= n < newDocContentSize.
C9_CursorContainment ==
    (tr.replaced /\ InsideBlock(tr.oldCursorPos[1]))
        => /\ tr.newCursorPos # NoPos
           /\ 0 <= tr.newCursorPos[1]
           /\ tr.newCursorPos[1] < ContentSize(newDoc)

\* the cursor in the last block of a document that was laid out on two pages
C9_Witness ==
    /\ tr.replaced /\ Len(newDoc) >= 2 /\ Len(contentNodes) >= 2
    /\ inRange(tr.oldCursorPos[1], contentNodes[Len(contentNodes)].pos + 1,
               contentNodes[Len(contentNodes)].pos
                   + NodeSize(contentNodes[Len(contentNodes)].node))

\* C10: after buildNewDocument the keys of the map are exactly the old
\* positions of the collected blocks and every value is at most the content
\* size of the new document.
C10_MapDomainAndRange ==
    PassEnded =>
        /\ MapKeys(b.oldToNewPosMap) = {contentNodes[i].pos : i \in 1..Len(contentNodes)}
        /\ \A i \in 1..Len(b.oldToNewPosMap) : b.oldToNewPosMap[i][2] <= ContentSize(newDoc)

\* a pass that split the third item of a group
C10_Witness ==
    /\ pc = "built"
    /\ BlockCount(newDoc) > Len(contentNodes)
    /\ Len(contentNodes) >= 3
    /\ Cardinality(MapKeys(b.oldToNewPosMap)) = Len(contentNodes)

\* the first collected block, in document order, whose range holds offset c
BlocksHolding(c) ==
    {i \in 1..Len(contentNodes) :
         inRange(c, contentNodes[i].pos, contentNodes[i].pos + NodeSize(contentNodes[i].node))}
FirstBlockHolding(c) == CHOOSE i \in BlocksHolding(c) : \A k \in BlocksHolding(c) : i <= k

\* C11: an old cursor offset c inside a collected block with old start s,
\* for which the map has the entry n, is mapped to
\* min(n + (c - s), newDocContentSize - 1); the block is the first one in
\* document order whose range holds c.
C11_ExactCursorMapping ==
    (tr.replaced /\ InsideBlock(tr.oldCursorPos[1]))
        => LET c == tr.oldCursorPos[1]
               s == contentNodes[FirstBlockHolding(c)].pos
           IN  MapHas(b.oldToNewPosMap, s)
                   => tr.newCursorPos
                          = Pos(Min(MapGet(b.oldToNewPosMap, s) + (c - s),
                                    ContentSize(newDoc) - 1))

\* the cursor past the start of a block, not the first, that the pass moved
C11_Witness ==
    /\ tr.replaced /\ InsideBlock(tr.oldCursorPos[1])
    /\ FirstBlockHolding(tr.oldCursorPos[1]) >= 2
    /\ LET c == tr.oldCursorPos[1]
           s == contentNodes[FirstBlockHolding(c)].pos
       IN  /\ c > s
           /\ MapHas(b.oldToNewPosMap, s)
           /\ MapGet(b.oldToNewPosMap, s) # s
           /\ tr.newCursorPos = Pos(MapGet(b.oldToNewPosMap, s) + (c - s))

\* the scenario: a scene heading of height 20 and an action block of height
\* 15, one group, processed with 25 units left on the page (a page with 25
\* left of a body height of 45 or 60 already has content)
ScenarioA ==
    /\ Processed
    /\ GroupNodes(LastGroup) =
           <<Node("scene", Str1("s"), R(20)), Node("action", Str1("a"), R(15))>>
    /\ b.remainingHeight = R(25)

\* C12: the step that processes the scene group of scenario A, a scene
\* heading of height 20 and an action block of height 15, with 25 units left
\* on the page defers the whole group: no split is made, the page is closed
\* with the content it had, and the two blocks open the next page.
C12_ScenarioA_Deferred ==
    [][(/\ pc = "compose" /\ g <= Len(contentGroups) /\ g' = g + 1
        /\ GroupNodes(contentGroups[g]) =
               <<Node("scene", Str1("s"), R(20)), Node("action", Str1("a"), R(15))>>
        /\ RSub(b.bodyHeight, b.currentHeight) = R(25))
           => /\ b'.splitResult = Null
              /\ b'.needPageBreak
              /\ Len(b'.pages) = Len(b.pages) + 1
              /\ b'.pages[Len(b'.pages)].body = b.currentPageContent
              /\ b.currentPageContent # <<>>
              /\ b'.currentPageContent = GroupNodes(contentGroups[g])
              /\ b'.currentHeight = R(35)]_vars

\* the scene group of scenario A, deferred from the first page
C12_Witness == ScenarioA /\ ~b.groupFits /\ Len(b.pages) = 1

\* a block with fewer than two sentence units
SingleSentence(node) == Len(splitIntoSentences(node.text)) < 2

\* C13: trySplitNode returns null for every block with fewer than two
\* sentence units; and the step that processes a standalone single-sentence
\* action block which does not fit what is left of a page that has content
\* makes no split, closes the page as it is and puts the whole block first on
\* the next page.
C13_SingleSentenceNeverSplit ==
    [][/\ (sPc = "call" /\ sPc' = "returned" /\ SingleSentence(sNode)) => sResult' = Null
       /\ (/\ pc = "compose" /\ g <= Len(contentGroups) /\ g' = g + 1
           /\ Len(contentGroups[g].items) = 1
           /\ getNodeClass(contentGroups[g].items[1].node) = "action"
           /\ SingleSentence(contentGroups[g].items[1].node)
           /\ b.currentPageContent # <<>>
           /\ RLt(RSub(b.bodyHeight, b.currentHeight), contentGroups[g].totalHeight))
              => /\ b'.splitResult = Null
                 /\ Len(b'.pages) = Len(b.pages) + 1
                 /\ b'.pages[Len(b'.pages)].body = b.currentPageContent
                 /\ b'.currentPageContent = <<contentGroups[g].items[1].node>>]_vars

\* a single-sentence action block that did not fit and opened the next page
C13_Witness ==
    /\ Processed
    /\ Len(LastGroup.items) = 1
    /\ getNodeClass(LastGroup.items[1].node) = "action"
    /\ SingleSentence(LastGroup.items[1].node)
    /\ ~b.groupFits /\ b.needPageBreak
    /\ Len(b.pages) >= 1
    /\ b.currentPageContent = <<LastGroup.items[1].node>>

\* ---- the groups of a pass, read against the tags of the collected blocks
Grouped == pc \in {"compose", "built"}
TagAt(i) == getNodeClass(contentNodes[i].node)
\* the collected block that is the first item of group k
GroupFirst(k) ==
    CHOOSE n \in 1..Len(contentNodes) : contentNodes[n].pos = contentGroups[k].items[1].pos
GroupTags(k) ==
    [j \in 1..Len(contentGroups[k].items) |-> getNodeClass(contentGroups[k].items[j].node)]
\* group k is the blocks i .. i + n - 1
GroupIs(k, i, n) ==
    /\ GroupFirst(k) = i
    /\ contentGroups[k].items = SubSeq(contentNodes, i, i + n - 1)
\* the block after i exists and a scene group takes it
SceneAbsorbs(i) == i + 1 <= Len(contentNodes) /\ TagAt(i + 1) \in {"none", "action"}

CharacterShapes ==
    {<<"character">>, <<"character", "parenthetical">>,
     <<"character", "parenthetical", "dialogue">>, <<"character", "dialogue">>}
\* the tags from block i on start with the shape
ShapeMatches(i, shape) ==
    /\ i + Len(shape) - 1 <= Len(contentNodes)
    /\ \A j \in 1..Len(shape) : TagAt(i + j - 1) = shape[j]

\* C15: every character block starts a group whose tags are one of the four
\* shapes, the longest one that matches the tags from that block on; the
\* group must stay together and is marked splittable.
C15_CharacterGrouping ==
    Grouped =>
        \A i \in 1..Len(contentNodes) : TagAt(i) = "character" =>
            \E k \in 1..Len(contentGroups) :
                /\ GroupIs(k, i, Len(contentGroups[k].items))
                /\ GroupTags(k) \in CharacterShapes
                /\ \A shape \in CharacterShapes :
                       ShapeMatches(i, shape) => Len(shape) <= Len(GroupTags(k))
                /\ contentGroups[k].mustStayTogether
                /\ contentGroups[k].groupType = "character-dialogue"
                /\ contentGroups[k].allowDialogueSplit

\* character, parenthetical and dialogue in one group
C15_Witness ==
    /\ Grouped
    /\ Len(contentGroups) = 1
    /\ GroupTags(1) = <<"character", "parenthetical", "dialogue">>
    /\ contentGroups[1].allowDialogueSplit

\* block i is an item of group k
InGroup(i, k) ==
    \E j \in 1..Len(contentGroups[k].items) : contentGroups[k].items[j].pos = contentNodes[i].pos

\* C16: every block that is neither a scene nor a character block and is not
\* an item of a group that a scene or character block starts is a group of
\* its own, which need not stay together and which is splittable if and only
\* if the block is untagged or tagged "dialogue" or "action".
C16_SingletonGroups ==
    Grouped =>
        \A i \in 1..Len(contentNodes) :
            (/\ TagAt(i) \notin {"scene", "character"}
             /\ ~\E k \in 1..Len(contentGroups) :
                    InGroup(i, k) /\ GroupTags(k)[1] \in {"scene", "character"})
                => \E k \in 1..Len(contentGroups) :
                       /\ GroupIs(k, i, 1)
                       /\ ~contentGroups[k].mustStayTogether
                       /\ contentGroups[k].allowDialogueSplit
                              <=> TagAt(i) \in {"none", "dialogue", "action"}

\* a stray parenthetical block and a dialogue block, each a group of its own
C16_Witness ==
    /\ Grouped
    /\ [i \in 1..Len(contentNodes) |-> TagAt(i)] = <<"parenthetical", "dialogue">>
    /\ Len(contentGroups) = 2
    /\ ~contentGroups[1].allowDialogueSplit
    /\ contentGroups[2].allowDialogueSplit

\* what of a group does not name a height
GroupShape(group) ==
    [positions |-> [j \in 1..Len(group.items) |-> group.items[j].pos],
     mustStayTogether |-> group.mustStayTogether,
     allowDialogueSplit |-> group.allowDialogueSplit,
     groupType |-> group.groupType]
\* the heights, in the measurement nh, of the items of the group
ItemHeights(group, nh) ==
    [j \in 1..Len(group.items) |->
        nh[CHOOSE n \in 1..Len(contentNodes) : contentNodes[n].pos = group.items[j].pos]]

\* C17: the same blocks under two measurements are grouped alike: the same
\* number of groups, each with the same items, mustStayTogether, splittable
\* flag and groupType; and under each measurement the totalHeight of a group
\* is the sum of the heights of its items.
C17_GroupingDeterminism ==
    gPc = "returned" =>
        /\ Len(contentGroups) = Len(twinGroups)
        /\ \A k \in 1..Len(contentGroups) :
               /\ k <= Len(twinGroups) => GroupShape(contentGroups[k]) = GroupShape(twinGroups[k])
               /\ contentGroups[k].totalHeight = RSum(ItemHeights(contentGroups[k], nodeHeights))
        /\ \A k \in 1..Len(twinGroups) :
               twinGroups[k].totalHeight = RSum(ItemHeights(twinGroups[k], twinHeights))

\* two measurements that differ on a group of several items
C17_Witness ==
    /\ gPc = "returned"
    /\ nodeHeights # twinHeights
    /\ \E k \in 1..Len(contentGroups) :
           /\ Len(contentGroups[k].items) >= 2
           /\ contentGroups[k].totalHeight # twinGroups[k].totalHeight

\* C18: a pass whose composed content equals the content of the document
\* dispatches its transaction untouched: no replace step, no "pagination"
\* meta, the selection as it was, and the document stays as it is.
C18_NoOpOnEqualOutput ==
    [][(pc = "built" /\ ContentEq(newDoc, doc) /\ tr'.dispatched)
           => /\ ~tr'.replaced
              /\ ~tr'.paginationMeta
              /\ ~tr'.selectionSet
              /\ tr'.newCursorPos = NoPos
              /\ doc' = doc]_vars

\* a second pass on a document of two pages that composed the same content
C18_Witness ==
    /\ pc = "done"
    /\ tr.dispatched /\ ~tr.replaced
    /\ Len(doc) >= 2
    /\ ContentEq(newDoc, doc)

\* C19: a pass in which a step throws is abandoned: the failure is logged
\* once, nothing is dispatched, and the document and the selection are as
\* they were before the pass.
C19_FailureLeavesDocument ==
    [][errorLog' # errorLog
           => /\ errorLog' = errorLog + 1
              /\ pc' = "failed"
              /\ doc' = doc
              /\ ~tr'.dispatched /\ ~tr'.replaced /\ ~tr'.selectionSet]_vars

\* a second pass that failed after the first one had replaced the document
C19_Witness ==
    /\ pc = "failed" /\ pass = "second"
    /\ errorLog = 1
    /\ ~tr.dispatched
    /\ Len(doc) >= 2

\* ---- the document as its sequence of tokens; position p lies before
\* token p + 1.  A block's tokens carry its number in document order.
BlockTokens(node, id) ==
    <<[kind |-> "open", block |-> id]>>
    \o [j \in 1..Len(node.text) |-> [kind |-> "char", block |-> id]]
    \o <<[kind |-> "close", block |-> id]>>
RECURSIVE BodyTokens(_, _)
BodyTokens(body, firstId) ==
    IF body = <<>> THEN <<>>
    ELSE BlockTokens(body[1], firstId) \o BodyTokens(Tail(body), firstId + 1)
RegionTokens(size, region) == [j \in 1..size |-> [kind |-> region, block |-> 0]]
\* the blocks the collector is to find in a top-level child, in order
BlocksOf(child) ==
    IF isPageNode(child)
    THEN (IF HasBody(child) THEN child.body ELSE <<>>)
         \o (IF HasOther(child) THEN <<child.other>> ELSE <<>>)
    ELSE <<child>>
PageTokens(page, firstId) ==
    <<[kind |-> "page", block |-> 0]>>
    \o RegionTokens(page.header, "header")
    \o (IF HasBody(page)
        THEN <<[kind |-> "body", block |-> 0]>>
             \o BodyTokens(page.body, firstId)
             \o <<[kind |-> "body", block |-> 0]>>
        ELSE <<>>)
    \o (IF HasOther(page)
        THEN BlockTokens(page.other, firstId + Len(BlocksOf(page)) - 1)
        ELSE <<>>)
    \o RegionTokens(page.footer, "footer")
    \o <<[kind |-> "page", block |-> 0]>>
RECURSIVE DocTokens(_, _)
DocTokens(pages, firstId) ==
    IF pages = <<>> THEN <<>>
    ELSE (IF isPageNode(pages[1]) THEN PageTokens(pages[1], firstId)
          ELSE BlockTokens(pages[1], firstId))
         \o DocTokens(Tail(pages), firstId + Len(BlocksOf(pages[1])))
RECURSIVE BodyBlocks(_)
BodyBlocks(pages) ==
    IF pages = <<>> THEN <<>> ELSE pages[1].body \o BodyBlocks(Tail(pages))

\* C20: the collector returns the children of the body regions of the pages,
\* all of them and nothing else, in document order; the positions grow
\* strictly and each is where that block starts in the document.
C20_CollectorOutput ==
    Grouped =>
        /\ [i \in 1..Len(contentNodes) |-> contentNodes[i].node] = BodyBlocks(doc)
        /\ \A i \in 1..(Len(contentNodes) - 1) : contentNodes[i].pos < contentNodes[i + 1].pos
        /\ LET tokens == DocTokens(doc, 1)
           IN  \A i \in 1..Len(contentNodes) :
                   /\ contentNodes[i].pos + 1 \in 1..Len(tokens)
                   /\ tokens[contentNodes[i].pos + 1] = [kind |-> "open", block |-> i]

\* a document of two pages, the first with a header, and three blocks
C20_Witness ==
    /\ Grouped
    /\ Len(doc) = 2 /\ doc[1].header > 0
    /\ Len(contentNodes) = 3
    /\ Len(DocTokens(doc, 1)) = ContentSize(doc)

\* C23: when the document is replaced and the old cursor offset lies in no
\* collected block, mapCursorPosition returns null and the selection is
\* placed at the end of the new document.
C23_CursorOutsideBlocks ==
    (tr.replaced /\ ~InsideBlock(tr.oldCursorPos[1]))
        => /\ tr.newCursorPos = NoPos
           /\ tr.selection = "end"

\* the cursor in the header of the first page, before the first block
C23_Witness ==
    /\ tr.replaced
    /\ contentNodes # <<>>
    /\ tr.oldCursorPos[1] > 0
    /\ tr.oldCursorPos[1] < contentNodes[1].pos
    /\ tr.selection = "end"

\* the distance of map entry j to the old cursor offset c
EntryDistance(j, c) ==
    IF b.oldToNewPosMap[j][1] >= c THEN b.oldToNewPosMap[j][1] - c
    ELSE c - b.oldToNewPosMap[j][1]

StepOnPage(type) ==
    /\ pc = "compose" /\ g <= Len(contentGroups) /\ g' = g + 1
    /\ contentGroups[g].groupType = type
    /\ b.currentPageContent # <<>>

\* the step appends the group's blocks to the page that was open
StaysOnPage ==
    /\ Len(b'.pages) = Len(b.pages)
    /\ b'.currentPageContent = b.currentPageContent \o GroupNodes(contentGroups[g])

\* the step closes the page with the content it had, and the group's blocks
\* are the first content of the next page
OpensNextPage ==
    /\ Len(b'.pages) = Len(b.pages) + 1
    /\ b'.pages[Len(b'.pages)].body = b.currentPageContent
    /\ b'.currentPageContent = GroupNodes(contentGroups[g])

\* the step places the group on the open page when "room" fits in the
\* remaining height, and defers it to the next page otherwise
PlacedIffRoom(room) ==
    IF RLe(room, RSub(b.bodyHeight, b.currentHeight)) THEN StaysOnPage ELSE OpensNextPage

TwoLinesMore == RAdd(contentGroups[g].totalHeight, R(MIN_PARAGRAPH_HEIGHT * MIN_LINES_ON_PAGE))
OneLineMore == RAdd(contentGroups[g].totalHeight, R(MIN_PARAGRAPH_HEIGHT))

\* C25 as stated: every scene group, the last group of the document
\* included, stays on a page that has content only if the remaining height
\* is at least its totalHeight plus two lines, and is deferred otherwise.
C25_SceneLookAhead_AnyGroup ==
    [][StepOnPage("scene") => PlacedIffRoom(TwoLinesMore)]_vars

\* C25: a scene group that is followed by another group stays on a page that
\* has content only if the remaining height is at least its totalHeight plus
\* two lines, and is deferred to the next page otherwise; a scene group that
\* is the last group of the document stays whenever its totalHeight fits.
C25_SceneLookAhead ==
    [][StepOnPage("scene")
          => IF g < Len(contentGroups) THEN PlacedIffRoom(TwoLinesMore)
             ELSE PlacedIffRoom(contentGroups[g].totalHeight)]_vars

\* a scene group that fits and is deferred for want of two more lines
C25_Witness ==
    /\ Processed /\ LastGroup.groupType = "scene" /\ g <= Len(contentGroups)
    /\ b.groupFits /\ b.needPageBreak
    /\ b.currentPageContent = GroupNodes(LastGroup)

\* C26: a character-dialogue group for which no split result was computed
\* stays on a page that has content only if the remaining height is at least
\* its totalHeight plus one line; otherwise the page is closed and the group
\* is the first content of the next page.
C26_DialogueLookAhead ==
    [][(StepOnPage("character-dialogue") /\ b'.splitResult = Null)
          => PlacedIffRoom(OneLineMore)]_vars

\* a character-dialogue group that fits and is deferred for want of a line
C26_Witness ==
    /\ Processed /\ LastGroup.groupType = "character-dialogue"
    /\ b.splitResult = Null /\ b.groupFits /\ b.needPageBreak
    /\ b.currentPageContent = GroupNodes(LastGroup)

\* C27: the step that applies a split result appends the group items before
\* the split item and then firstPart to the page that was open, closes that
\* page, and starts the next page with secondPart followed by the group items
\* after the split item; the height counter of the new page is then
\* secondPartHeight plus the measured heights of those trailing items.
C27_SplitApplied ==
    [][(/\ pc = "compose" /\ g <= Len(contentGroups) /\ g' = g + 1
        /\ b'.splitResult # Null)
          => LET group == contentGroups[g]
                 k == b'.splitResult.splitItemIndex
                 nodes == GroupNodes(group)
                 heights == ItemHeights(group, nodeHeights)
             IN  /\ Len(b'.pages) = Len(b.pages) + 1
                 /\ b'.pages[Len(b'.pages)].body
                        = (b.currentPageContent \o SubSeq(nodes, 1, k))
                          \o <<b'.splitResult.firstPart>>
                 /\ b'.currentPageContent
                        = <<b'.splitResult.secondPart>> \o SubSeq(nodes, k + 2, Len(nodes))
                 /\ b'.currentHeight
                        = RAdd(b'.splitResult.secondPartHeight,
                               RSum(SubSeq(heights, k + 2, Len(heights))))]_vars

\* a split applied to a dialogue that follows its character block: the
\* character block and firstPart close a page, secondPart opens the next
C27_Witness ==
    /\ Processed /\ b.splitResult # Null
    /\ b.splitResult.splitItemIndex = 1
    /\ Len(b.pages[Len(b.pages)].body) >= 3
    /\ b.currentPageContent = <<b.splitResult.secondPart>>

\* a and c are the two parts of block o, cut after one of its sentences
IsSplitOf(a, c, o) ==
    LET sentences == splitIntoSentences(o.text)
    IN  \E k \in 1..(Len(sentences) - 1) :
            /\ a.class = o.class /\ c.class = o.class
            /\ a.text = Trim(Join(SubSeq(sentences, 1, k), <<Space>>))
            /\ c.text = Trim(Join(SubSeq(sentences, k + 1, Len(sentences)), <<Space>>))

\* for each old block, the index among the new blocks of the block that
\* stands for it: the block itself, or the first of its two parts
RECURSIVE Align(_, _, _)
Align(new, old, j) ==
    IF old = <<>> THEN <<>>
    ELSE IF j <= Len(new) /\ new[j] = old[1] THEN <<j>> \o Align(new, Tail(old), j + 1)
    ELSE <<j>> \o Align(new, Tail(old), j + 2)

CollectedNodes == [i \in 1..Len(contentNodes) |-> contentNodes[i].node]

\* C28: at the end of buildNewDocument, before the map is clamped, the new
\* position recorded for every collected block is the position at which the
\* block, or the firstPart of the block when it was split, starts in the new
\* document, whatever the number of pages and the sizes of their headers and
\* footers.
C28_MapAccuracy ==
    [][(pc = "compose" /\ pc' = "built")
          => LET tokens == DocTokens(newDoc', 1)
                 blocks == BodyBlocks(newDoc')
                 at == Align(blocks, CollectedNodes, 1)
             IN  \A i \in 1..Len(contentNodes) :
                     /\ MapHas(b.oldToNewPosMap, contentNodes[i].pos)
                     /\ at[i] \in 1..Len(blocks)
                     /\ \/ blocks[at[i]] = contentNodes[i].node
                        \/ /\ at[i] < Len(blocks)
                           /\ IsSplitOf(blocks[at[i]], blocks[at[i] + 1], contentNodes[i].node)
                     /\ LET newPos == MapGet(b.oldToNewPosMap, contentNodes[i].pos)
                        IN  /\ newPos + 1 \in 1..Len(tokens)
                            /\ tokens[newPos + 1] = [kind |-> "open", block |-> at[i]]]_vars

\* a new document of two pages with headers of different sizes, the second
\* page opened by the second part of a split block
C28_Witness ==
    /\ pc = "built" /\ Len(newDoc) = 2
    /\ newDoc[1].header # newDoc[2].header
    /\ Len(BodyBlocks(newDoc)) > Len(contentNodes)
    /\ Len(newDoc[2].body) >= 1 /\ Len(newDoc[1].body) >= 2

\* new is old with some blocks replaced by their two parts
RECURSIVE Conserves(_, _)
Conserves(new, old) ==
    IF old = <<>> THEN new = <<>>
    ELSE IF new = <<>> THEN FALSE
    ELSE \/ new[1] = old[1] /\ Conserves(Tail(new), Tail(old))
         \/ /\ Len(new) >= 2
            /\ IsSplitOf(new[1], new[2], old[1])
            /\ Conserves(Tail(Tail(new)), Tail(old))

\* C29: the bodies of the pages of the new document, one after the other,
\* are the collected blocks in their order, each once, a split block being
\* replaced by its firstPart and then its secondPart; the content of the page
\* open at the end of the loop is part of it.
C29_ContentConservation ==
    (pc = "built") => Conserves(BodyBlocks(newDoc), CollectedNodes)

\* a new document whose last page holds the second part of a split block and
\* the block after it
C29_Witness ==
    /\ pc = "built" /\ Len(newDoc) >= 2
    /\ Len(BodyBlocks(newDoc)) > Len(contentNodes)
    /\ Len(newDoc[Len(newDoc)].body) >= 2

BlockHeights(body) == [i \in 1..Len(body) |-> body[i].h]
Overfull(page) == RLt(page.bodyHeight, RSum(BlockHeights(page.body)))
IsOneGroup(body) == \E k \in 1..Len(contentGroups) : GroupNodes(contentGroups[k]) = body

\* C30: on every page of the new document the heights of the placed blocks,
\* measured for whole blocks and estimated for the parts of a split block,
\* add up to at most the body height used for the page, unless the body is
\* one group, or one part of a split block, that alone exceeds it.
C30_PageCapacity ==
    (pc = "built") =>
        \A p \in 1..Len(newDoc) :
            \/ ~Overfull(newDoc[p])
            \/ IsOneGroup(newDoc[p].body)
            \/ Len(newDoc[p].body) = 1

\* a new document with a page that two groups fill to its body height or
\* less, and a page that one group of two blocks overfills
C30_Witness ==
    /\ pc = "built"
    /\ \E p \in 1..Len(newDoc) :
           ~Overfull(newDoc[p]) /\ Len(newDoc[p].body) >= 2 /\ ~IsOneGroup(newDoc[p].body)
    /\ \E p \in 1..Len(newDoc) :
           Overfull(newDoc[p]) /\ Len(newDoc[p].body) = 2

\* the document has a page without body region, a page-level node that is
\* neither header, footer nor body, or a top-level node that is not a page
Malformed(d) ==
    \E i \in 1..Len(d) : ~isPageNode(d[i]) \/ ~HasBody(d[i]) \/ HasOther(d[i])

RECURSIVE AllBlocks(_)
AllBlocks(d) == IF d = <<>> THEN <<>> ELSE BlocksOf(d[1]) \o AllBlocks(Tail(d))

\* the i-th collected block is a top-level child of the document
RECURSIVE IsLoose(_, _)
IsLoose(d, i) ==
    IF i <= Len(BlocksOf(d[1])) THEN ~isPageNode(d[1])
    ELSE IsLoose(Tail(d), i - Len(BlocksOf(d[1])))

\* C21 as stated: on a malformed document the collector signals an error
\* and hands no block sequence to the pass.
C21_StructuralError ==
    (pc = "collected" /\ Malformed(doc)) => (errorLog > 0 /\ contentNodes = <<>>)

\* C21: on a malformed document the collector signals no error and returns
\* a block sequence: a page without body region gives no block, the children
\* of body regions and every other page-level node that is not a header or
\* footer are collected at the position where they start, and a top-level
\* node that is not a page is collected at the position after its start.
C21_StructuralTolerance ==
    (pc = "collected" /\ Malformed(doc)) =>
        /\ errorLog = 0
        /\ CollectedNodes = AllBlocks(doc)
        /\ LET tokens == DocTokens(doc, 1)
           IN  \A i \in 1..Len(contentNodes) :
                   LET start == IF IsLoose(doc, i) THEN contentNodes[i].pos - 1
                                ELSE contentNodes[i].pos
                   IN  /\ start + 1 \in 1..Len(tokens)
                       /\ tokens[start + 1] = [kind |-> "open", block |-> i]

\* a document with a block outside every page, a page without body region
\* and a page with one more region node, after it was collected
C21_Witness ==
    /\ pc = "collected" /\ Len(doc) = 3
    /\ ~isPageNode(doc[1])
    /\ isPageNode(doc[2]) /\ ~HasBody(doc[2])
    /\ isPageNode(doc[3]) /\ HasOther(doc[3])
    /\ Len(contentNodes) = 3

\* nothing of the plugin is outstanding: no timer, no idle callback, no run
Quiescent ==
    /\ variant # "off" /\ ~view.destroyed
    /\ view.timers = {} /\ view.idles = {} /\ run = {}

\* C24: when the last document update arrived while a pass was in progress
\* or queued, then, once nothing is outstanding any more, that pass has run
\* buildPageView to its end and exactly one call of buildPageView was made
\* after it, on the latest state of the document.
C24_InFlightPolicy ==
    (Quiescent /\ hist.arrived # "none")
        => /\ hist.inflightEnded /\ hist.inflightRan
           /\ hist.further = 1
           /\ hist.ranOn = view.version

\* C31: every page that the loop closes holds at least one block, a group
\* that does not fit on an empty page and is not split is placed on that
\* page, and the finished document has no page with an empty body and at most
\* as many pages as there are groups and splits together.
C31_NoEmptyPage ==
    [][/\ (pc = "compose" /\ g <= Len(contentGroups) /\ g' = g + 1)
          => /\ Len(b'.pages) > Len(b.pages) => b'.pages[Len(b'.pages)].body # <<>>
             /\ (b.currentPageContent = <<>> /\ b'.splitResult = Null)
                    => /\ Len(b'.pages) = Len(b.pages)
                       /\ b'.currentPageContent = GroupNodes(contentGroups[g])
       /\ (pc = "compose" /\ pc' = "built")
          => /\ \A p \in 1..Len(newDoc') : newDoc'[p].body # <<>>
             /\ Len(newDoc') <= Len(contentGroups)
                                  + (Len(BodyBlocks(newDoc')) - Len(contentNodes))]_vars

\* a group that does not fit on the empty page it meets and stays on it
C31_Witness ==
    /\ Processed /\ b.pages = <<>>
    /\ ~b.groupFits /\ b.splitResult = Null /\ ~b.needPageBreak
    /\ b.currentPageContent = GroupNodes(LastGroup)

\* the region expected on page p of the new document, given the region the
\* old document has on its page p (0 when it has none, or no such page)
ExpectedRegion(enabled, old) ==
    IF ~enabled THEN 0 ELSE IF old > 0 THEN old ELSE DefaultHeaderFooterSize

\* C32: on every page of the new document the header (footer) is absent
\* when headers (footers) are disabled; otherwise it is the header (footer)
\* of the old document's page of the same index when that page exists and
\* has one, and a default region holding one empty paragraph when not.
C32_HeaderFooterReuse ==
    (pc = "built") =>
        \A p \in 1..Len(newDoc) :
            /\ newDoc[p].header
                   = ExpectedRegion(options.enableHeader,
                                    IF p <= Len(doc) THEN doc[p].header ELSE 0)
            /\ newDoc[p].footer
                   = ExpectedRegion(options.enableFooter,
                                    IF p <= Len(doc) THEN doc[p].footer ELSE 0)

\* a new document of three pages made from an old one of two: the first
\* page reuses the old regions, the second finds none, the third has no old
\* page
C32_Witness ==
    /\ pc = "built" /\ Len(doc) = 2 /\ Len(newDoc) = 3
    /\ options.enableHeader /\ options.enableFooter
    /\ newDoc[1].header = CustomHeaderSize /\ newDoc[1].footer = CustomFooterSize
    /\ newDoc[3].header = DefaultHeaderFooterSize

\* C33: after a view update that changed the document, buildPageView is
\* invoked on a state at least as recent as that update: once no timer, no
\* idle callback and no run is outstanding, so that nothing more will happen,
\* the last call of buildPageView was made on the latest document.
C33_EventualPagination ==
    (Quiescent /\ view.version > 0) => hist.ranOn = view.version

\* C34: buildPageView is never invoked while the composing flag of the
\* plugin's state is true.
C34_NoPaginationMidComposition ==
    ~hist.ranComposing

\* C35: at most one pagination pass is in progress at any time: no run of
\* runPagination is started while another one has not ended.
C35_MutualExclusion ==
    Cardinality(run) <= 1

\* C36: at any time at most one throttle timer and at most one idle
\* callback of the plugin are outstanding.
C36_ThrottleCoalescing ==
    /\ Cardinality(view.timers) <= 1
    /\ Cardinality(view.idles) <= 1

\* C37: whenever no pass is executing, isPaginating of the plugin's state
\* is false, so that the guard of runPagination lets the next run through.
C37_IsPaginatingReleased ==
    run = {} => ~st[Current(World)].isPaginating

\* C38: a run of the chunked plugin whose executor was aborted does not
\* invoke buildPageView afterwards, whether the analysis gave a result or
\* failed.
C38_AbortHonoured ==
    ~hist.ranAborted

\* the last document update arrived while a run awaited the analysis and
\* aborted its executor; that run has ended without a call of buildPageView
C38_Witness ==
    /\ variant = "chunked"
    /\ hist.arrived = "inProgress" /\ hist.inflightEnded /\ ~hist.inflightRan

\* C39: the pending window is cleared only by a pass in which buildPageView
\* ran and succeeded: no run clears a window it holds after a pass that
\* failed or, in the chunked plugin, was aborted before it paginated.
C39_PendingResetAfterSuccess ==
    ~hist.resetUnpaginated

\* C40: after destroy() of the plugin view no throttle timer and no idle
\* callback of the plugin is outstanding, and buildPageView is not invoked
\* again.
C40_DestroyStopsPagination ==
    /\ view.destroyed => (view.timers = {} /\ view.idles = {})
    /\ ~hist.ranDestroyed

====
